---- MODULE Spec2Model ----
(***************************************************************************)
(* The PubSub manager of open62541 (ua_pubsub_manager.c): the reserve-id   *)
(* allocator, the connection / PublishedDataSet / StandaloneSubscribed-    *)
(* DataSet registries and their cascading removals.                        *)
(*                                                                         *)
(* Scaling.  In the source UA_UInt16 counts modulo 0x10000, the first id   *)
(* UA_RESERVEID_FIRST_ID is 0x8000, half of that, and numberOfIds, the     *)
(* number of probes of one search, is 0x8000 as well.  The model keeps     *)
(* these relations and scales the size: numberOfIds is NumberOfIds, the    *)
(* first id is NumberOfIds, UA_UInt16 counts modulo 2 * NumberOfIds, so    *)
(* the id range [0x8000, 0xFFFF] is [NumberOfIds, 2 * NumberOfIds - 1].    *)
(* With NumberOfIds = 0x8000 these are the values of the source.           *)
(* The build is the default one: UA_ENABLE_REDUCED_ITERATIONS_FOR_TESTING   *)
(* is not defined.  Allocation (calloc, UA_Array_new, the config copies)   *)
(* is assumed to succeed.                                                  *)
(*                                                                         *)
(* The lists of the manager that the code appends to at the tail           *)
(* (connections, publishedDataSets, subscribedDataSets) are sequences.     *)
(* The reserve list is a bag of entries: the code never reads its order    *)
(* (isFree and freeIds look at every entry), and a bag keeps two entries   *)
(* with equal fields apart.  WriterGroups, DataSetWriters, ReaderGroups    *)
(* and DataSetReaders are heap objects: a set of records, each holding the *)
(* identifier of its parent (linkedConnection, linkedWriterGroup,          *)
(* linkedReaderGroup); the list a parent owns is the set of objects that   *)
(* name it.                                                                *)
(***************************************************************************)
EXTENDS Integers, Sequences, FiniteSets, Bags, TLC

\* ------------------------------------------------------------------ bounds
\* numberOfIds of UA_ReserveId_createId, scaled: the size of the id range
NumberOfIds == 2
\* cap of uniqueIdCount: at most this many entities are ever created
MaxNodeId == 4
\* Node ids handed out in the id-collision specification SpecIds.
MaxIdsNodes == 3
\* cap of the length of the reserve list
MaxReserve == 3
\* largest number of writer group ids one reserveIds call asks for
MaxRequest == 3
\* cap of the callback ids the event loop hands out
MaxTimers == 3
\* cap of the length of the list of TopicAssigns
MaxTopicAssigns == 2

\* identifiers handed out while the threads run step by step
MaxLockIds == 2
\* the last reading of the clock UA_DateTime_now
MaxClock == 4

\* --------------------------------------------------------------- constants
UInt16Mod == 2 * NumberOfIds
UA_RESERVEID_FIRST_ID == NumberOfIds
\* the largest UA_UInt16
UA_UINT16_MAX == UInt16Mod - 1
\* the ids the allocator hands out: [0x8000, 0xFFFF] in the source
ReservedRange == UA_RESERVEID_FIRST_ID .. UA_UINT16_MAX

UA_WRITER_GROUP == "UA_WRITER_GROUP"
UA_DATA_SET_WRITER == "UA_DATA_SET_WRITER"

\* the three profiles reserveIds accepts, and one it does not
ProfileMqttUadp == "http://opcfoundation.org/UA-Profile/Transport/pubsub-mqtt-uadp"
ProfileMqttJson == "http://opcfoundation.org/UA-Profile/Transport/pubsub-mqtt-json"
ProfileUdpUadp == "http://opcfoundation.org/UA-Profile/Transport/pubsub-udp-uadp"
ProfileEthUadp == "http://opcfoundation.org/UA-Profile/Transport/pubsub-eth-uadp"

\* UA_NODEID_NULL; the identifiers generateUniqueNodeId hands out are 1, 2, ...
UA_NODEID_NULL == 0

\* server->adminSession.sessionId, and the ids of the sessions clients open
AdminSession == "adminSession"
ClientSessions == {"s1"}

UA_PUBSUBSTATE_DISABLED == "DISABLED"
UA_PUBSUBSTATE_OPERATIONAL == "OPERATIONAL"

VARIABLES
    sessions,                \* server->sessions: ids of the active sessions
    reserveIds,              \* pubSubManager.reserveIds, a bag of entries
    reserveIdsSize,          \* pubSubManager.reserveIdsSize
    next_id_writerGroup,     \* static cursor of UA_ReserveId_createId
    next_id_writer,          \* static cursor of UA_ReserveId_createId
    transportLayers,         \* config.pubSubConfig.transportLayers (their URIs)
    connections,             \* pubSubManager.connections
    connectionsSize,         \* pubSubManager.connectionsSize
    writerGroups,            \* the WriterGroup objects
    dataSetWriters,          \* the DataSetWriter objects
    readerGroups,            \* the ReaderGroup objects
    dataSetReaders,          \* the DataSetReader objects
    publishedDataSets,       \* pubSubManager.publishedDataSets
    publishedDataSetsSize,   \* pubSubManager.publishedDataSetsSize
    subscribedDataSets,      \* pubSubManager.subscribedDataSets
    subscribedDataSetsSize,  \* pubSubManager.subscribedDataSetsSize
    topicAssign,             \* pubSubManager.topicAssign
    topicAssignSize,         \* pubSubManager.topicAssignSize
    uniqueIdCount,           \* pubSubManager.uniqueIdCount
    msgRcvTimeoutTimerCallback,  \* reader->msgRcvTimeoutTimerCallback
    msgRcvTimeoutTimerId,    \* reader->msgRcvTimeoutTimerId
    messageReceiveTimeout,   \* reader->config.messageReceiveTimeout
    timers,                  \* the cyclic callbacks of config.eventLoop
    idCounter,               \* the last callback id config.eventLoop handed out
    trampoline,              \* the timer whose monitoringReceiveTimeoutOnce is
                             \* inside the callback of the reader, or 0
    arming,                  \* since the last startMonitoring that returned
                             \* Good: no stopMonitoring yet (active), and the
                             \* calls of the callback of the reader (fired)
    serviceMutex,            \* server->serviceMutex: the thread that holds it,
                             \* or "unlocked"
    pc,                      \* for each thread, the call it is inside
    ret                      \* the last call: operation, status, results, and
                             \* what the call met (entries freed, children)

reserveVars == <<reserveIds, reserveIdsSize, next_id_writerGroup, next_id_writer>>
connVars == <<connections, connectionsSize>>
writerVars == <<writerGroups, dataSetWriters>>
readerVars == <<readerGroups, dataSetReaders>>
pdsVars == <<publishedDataSets, publishedDataSetsSize>>
sdsVars == <<subscribedDataSets, subscribedDataSetsSize>>
topicVars == <<topicAssign, topicAssignSize>>
lockVars == <<serviceMutex, pc>>
monVars == <<msgRcvTimeoutTimerCallback, msgRcvTimeoutTimerId, messageReceiveTimeout,
             timers, idCounter, trampoline, arming>>
vars == <<sessions, reserveVars, transportLayers, connVars, writerVars, readerVars,
          pdsVars, sdsVars, topicVars, uniqueIdCount, monVars, lockVars, ret>>
\* what the operations on the entities of the manager leave alone
otherVars == <<sessions, reserveVars, transportLayers, topicVars, monVars, lockVars>>
\* the same without the lock and the threads
unlockedVars == <<sessions, reserveVars, transportLayers, topicVars, monVars>>

\* ----------------------------------------------------------------- helpers
\* the sequence s without its i-th element (TAILQ_REMOVE / LIST_REMOVE)
RemoveAt(s, i) == SubSeq(s, 1, i - 1) \o SubSeq(s, i + 1, Len(s))

\* index of the first element of s with the identifier id, 0 if there is none
RECURSIVE IndexOfId(_, _, _)
IndexOfId(s, id, i) ==
    IF i > Len(s) THEN 0
    ELSE IF s[i].identifier = id THEN i
    ELSE IndexOfId(s, id, i + 1)

\* ------------------------------------------------------------ lookups
\* UA_PubSubConnection_findConnectionbyId: linear scan of the connection list
UA_PubSubConnection_findConnectionbyId(id) == IndexOfId(connections, id, 1)

\* the WriterGroups in connection c's writerGroups list
WriterGroupsOf(c) == {w \in writerGroups : w.linkedConnection = c}
\* the DataSetWriters in writer group w's writers list
WritersOf(w) == {d \in dataSetWriters : d.linkedWriterGroup = w}
\* the ReaderGroups in connection c's readerGroups list
ReaderGroupsOf(c) == {g \in readerGroups : g.linkedConnection = c}
\* the DataSetReaders in reader group g's readers list
ReadersOf(g) == {r \in dataSetReaders : r.linkedReaderGroup = g}


\* ------------------------------------------------------- reserve ids
\* UA_ReserveId_new
UA_ReserveId_new(id, transportProfileUri, reserveIdType, sessionId) ==
    [id |-> id, transportProfileUri |-> transportProfileUri,
     reserveIdType |-> reserveIdType, sessionId |-> sessionId]

\* UA_ReserveId_isFree without the walk over the connections: only the reserve
\* list is looked at
UA_ReserveId_isFree_ListOnly(id, transportProfileUri, reserveIdType, rids) ==
    ~ \E reserveId1 \in BagToSet(rids) :
        /\ reserveId1.transportProfileUri = transportProfileUri
        /\ reserveId1.reserveIdType = reserveIdType
        /\ reserveId1.id = id

\* UA_ReserveId_isFree without the walk over the reserve list: only the live
\* entities are looked at
UA_ReserveId_isFree_EntitiesOnly(id, transportProfileUri, reserveIdType, rids) ==
    ~ \E ci \in 1 .. Len(connections) :
        \E w \in WriterGroupsOf(connections[ci].identifier) :
            IF reserveIdType = UA_WRITER_GROUP
            THEN /\ connections[ci].transportProfileUri = transportProfileUri
                 /\ w.writerGroupId = id
            ELSE \E d \in WritersOf(w.identifier) :
                    /\ connections[ci].transportProfileUri = transportProfileUri
                    /\ d.dataSetWriterId = id

\* UA_ReserveId_isFree without the comparisons of the reserveIdType: an entry
\* of the list or a live entity of either kind takes the id
UA_ReserveId_isFree_AnyKind(id, transportProfileUri, reserveIdType, rids) ==
    /\ ~ \E reserveId1 \in BagToSet(rids) :
            /\ reserveId1.transportProfileUri = transportProfileUri
            /\ reserveId1.id = id
    /\ ~ \E ci \in 1 .. Len(connections) :
            \E w \in WriterGroupsOf(connections[ci].identifier) :
                /\ connections[ci].transportProfileUri = transportProfileUri
                /\ \/ w.writerGroupId = id
                   \/ \E d \in WritersOf(w.identifier) : d.dataSetWriterId = id

\* UA_ReserveId_isFree over the reserve list rids and the live entities
UA_ReserveId_isFree(id, transportProfileUri, reserveIdType, rids) ==
    /\ ~ \E reserveId1 \in BagToSet(rids) :
            /\ reserveId1.transportProfileUri = transportProfileUri
            /\ reserveId1.reserveIdType = reserveIdType
            /\ reserveId1.id = id
    /\ ~ \E ci \in 1 .. Len(connections) :
            \E w \in WriterGroupsOf(connections[ci].identifier) :
                IF reserveIdType = UA_WRITER_GROUP
                THEN /\ connections[ci].transportProfileUri = transportProfileUri
                     /\ w.writerGroupId = id
                ELSE \E d \in WritersOf(w.identifier) :
                        /\ connections[ci].transportProfileUri = transportProfileUri
                        /\ d.dataSetWriterId = id

\* the probing loop of UA_ReserveId_createId without the test
\* next_id < UA_RESERVEID_FIRST_ID
RECURSIVE ProbeIds_NoFirstIdTest(_, _, _, _, _)
ProbeIds_NoFirstIdTest(next_id, numberOfIds, transportProfileUri, reserveIdType, rids) ==
    IF numberOfIds = 0 THEN [is_free |-> FALSE, next_id |-> next_id]
    ELSE IF UA_ReserveId_isFree(next_id, transportProfileUri, reserveIdType, rids)
         THEN [is_free |-> TRUE, next_id |-> next_id]
         ELSE ProbeIds_NoFirstIdTest((next_id + 1) % UInt16Mod, numberOfIds - 1,
                                     transportProfileUri, reserveIdType, rids)

\* the probing loop of UA_ReserveId_createId: at most numberOfIds probes from
\* next_id; a cursor below the first id is moved to it; next_id++ wraps as a
\* UA_UInt16 does
RECURSIVE ProbeIds(_, _, _, _, _)
ProbeIds(next_id, numberOfIds, transportProfileUri, reserveIdType, rids) ==
    IF numberOfIds = 0 THEN [is_free |-> FALSE, next_id |-> next_id]
    ELSE LET n == IF next_id < UA_RESERVEID_FIRST_ID
                  THEN UA_RESERVEID_FIRST_ID ELSE next_id
         IN IF UA_ReserveId_isFree(n, transportProfileUri, reserveIdType, rids)
            THEN [is_free |-> TRUE, next_id |-> n]
            ELSE ProbeIds((n + 1) % UInt16Mod, numberOfIds - 1,
                          transportProfileUri, reserveIdType, rids)

\* UA_ReserveId_createId on the allocator state st = [reserveIds, reserveIdsSize,
\* next_id_writerGroup, next_id_writer]: the id returned and the state left
UA_ReserveId_createId(st, sessionId, transportProfileUri, reserveIdType) ==
    LET start == IF reserveIdType = UA_WRITER_GROUP
                 THEN st.next_id_writerGroup ELSE st.next_id_writer
        p == ProbeIds(start, NumberOfIds, transportProfileUri, reserveIdType,
                      st.reserveIds)
    IN IF ~ p.is_free THEN [id |-> 0, st |-> st]
       ELSE [id |-> p.next_id,
             st |-> [reserveIds |->
                         st.reserveIds (+)
                         SetToBag({UA_ReserveId_new(p.next_id, transportProfileUri,
                                                    reserveIdType, sessionId)}),
                     reserveIdsSize |-> st.reserveIdsSize + 1,
                     next_id_writerGroup |->
                         IF reserveIdType = UA_WRITER_GROUP
                         THEN (p.next_id + 1) % UInt16Mod
                         ELSE st.next_id_writerGroup,
                     next_id_writer |->
                         IF reserveIdType = UA_WRITER_GROUP
                         THEN st.next_id_writer
                         ELSE (p.next_id + 1) % UInt16Mod]]

\* is_active of UA_PubSubManager_freeIds left true for every entry: the walk
\* over the sessions of the server never finds a session closed
ReserveIdIsKept_AlwaysActive(reserveId1) == TRUE

\* is_active of UA_PubSubManager_freeIds without the test for the admin session
ReserveIdIsKept_NoAdminTest(reserveId1) ==
    \E session \in sessions : session = reserveId1.sessionId

\* is_active of UA_PubSubManager_freeIds, with the test for the admin session
\* before it: the entry stays if its session is the admin session or is in
\* the server's session list
ReserveIdIsKept(reserveId1) ==
    IF reserveId1.sessionId = AdminSession THEN TRUE
    ELSE \E session \in sessions : session = reserveId1.sessionId

\* the loop of UA_PubSubManager_freeIds over the entries still to visit
RECURSIVE FreeIdsLoop(_, _)
FreeIdsLoop(st, todo) ==
    IF todo = EmptyBag THEN st
    ELSE LET reserveId1 == CHOOSE e \in BagToSet(todo) : TRUE
             one == SetToBag({reserveId1})
         IN IF ReserveIdIsKept(reserveId1)
            THEN FreeIdsLoop(st, todo (-) one)
            ELSE FreeIdsLoop([st EXCEPT !.reserveIdsSize = st.reserveIdsSize - 1,
                                        !.reserveIds = st.reserveIds (-) one],
                             todo (-) one)

\* the whole sweep of UA_PubSubManager_freeIds on the allocator state
FreeIdsSweep(st) == FreeIdsLoop(st, st.reserveIds)

\* the test of the transportProfileUri with the ! of the third comparison
\* missing
ValidTransportProfileUri_MissingNot(transportProfileUri) ==
    ~ (/\ transportProfileUri # ProfileMqttUadp
       /\ transportProfileUri # ProfileMqttJson
       /\ transportProfileUri = ProfileUdpUadp)

\* the test of the transportProfileUri in UA_PubSubManager_reserveIds
ValidTransportProfileUri(transportProfileUri) ==
    ~ (/\ transportProfileUri # ProfileMqttUadp
       /\ transportProfileUri # ProfileMqttJson
       /\ transportProfileUri # ProfileUdpUadp)

\* n calls of UA_ReserveId_createId in a row: the ids and the state left
RECURSIVE CreateIds(_, _, _, _, _)
CreateIds(st, n, sessionId, transportProfileUri, reserveIdType) ==
    IF n = 0 THEN [ids |-> <<>>, st |-> st]
    ELSE LET r == UA_ReserveId_createId(st, sessionId, transportProfileUri,
                                        reserveIdType)
             rest == CreateIds(r.st, n - 1, sessionId, transportProfileUri,
                               reserveIdType)
         IN [ids |-> <<r.id>> \o rest.ids, st |-> rest.st]

\* UA_PubSubManager_reserveIds with the call of UA_PubSubManager_freeIds moved
\* behind the two loops
ReserveIdsResult_SweepLast(st, sessionId, numWG, numDSW, transportProfileUri) ==
    IF ~ ValidTransportProfileUri(transportProfileUri)
    THEN [status |-> "BadInvalidArgument", writerGroupIds |-> <<>>,
          dataSetWriterIds |-> <<>>, st |-> FreeIdsSweep(st),
          freed |-> st.reserveIds (-) FreeIdsSweep(st).reserveIds]
    ELSE LET wg == CreateIds(st, numWG, sessionId,
                             transportProfileUri, UA_WRITER_GROUP)
             dsw == CreateIds(wg.st, numDSW, sessionId,
                              transportProfileUri, UA_DATA_SET_WRITER)
         IN [status |-> "Good", writerGroupIds |-> wg.ids,
             dataSetWriterIds |-> dsw.ids, st |-> FreeIdsSweep(dsw.st),
             freed |-> dsw.st.reserveIds (-) FreeIdsSweep(dsw.st).reserveIds]

\* UA_PubSubManager_reserveIds on the allocator state: status, arrays, state,
\* and the entries its sweep freed
ReserveIdsResult(st, sessionId, numWG, numDSW, transportProfileUri) ==
    LET swept == FreeIdsSweep(st)
    IN IF ~ ValidTransportProfileUri(transportProfileUri)
       THEN [status |-> "BadInvalidArgument", writerGroupIds |-> <<>>,
             dataSetWriterIds |-> <<>>, st |-> swept,
             freed |-> st.reserveIds (-) swept.reserveIds]
       ELSE LET wg == CreateIds(swept, numWG, sessionId,
                                transportProfileUri, UA_WRITER_GROUP)
                dsw == CreateIds(wg.st, numDSW, sessionId,
                                 transportProfileUri, UA_DATA_SET_WRITER)
            IN [status |-> "Good", writerGroupIds |-> wg.ids,
                dataSetWriterIds |-> dsw.ids, st |-> dsw.st,
                freed |-> st.reserveIds (-) swept.reserveIds]

AllocatorState ==
    [reserveIds |-> reserveIds, reserveIdsSize |-> reserveIdsSize,
     next_id_writerGroup |-> next_id_writerGroup, next_id_writer |-> next_id_writer]

SetAllocatorState(st) ==
    /\ reserveIds' = st.reserveIds
    /\ reserveIdsSize' = st.reserveIdsSize
    /\ next_id_writerGroup' = st.next_id_writerGroup
    /\ next_id_writer' = st.next_id_writer


\* ------------------------------------------------- the entity graph
\* The manager's entities as one value g, so that an operation that calls
\* another one (a cascade) is the composition of their results.
Graph ==
    [connections |-> connections, connectionsSize |-> connectionsSize,
     writerGroups |-> writerGroups, dataSetWriters |-> dataSetWriters,
     readerGroups |-> readerGroups, dataSetReaders |-> dataSetReaders,
     publishedDataSets |-> publishedDataSets,
     publishedDataSetsSize |-> publishedDataSetsSize,
     subscribedDataSets |-> subscribedDataSets,
     subscribedDataSetsSize |-> subscribedDataSetsSize]

SetGraph(g) ==
    /\ connections' = g.connections
    /\ connectionsSize' = g.connectionsSize
    /\ writerGroups' = g.writerGroups
    /\ dataSetWriters' = g.dataSetWriters
    /\ readerGroups' = g.readerGroups
    /\ dataSetReaders' = g.dataSetReaders
    /\ publishedDataSets' = g.publishedDataSets
    /\ publishedDataSetsSize' = g.publishedDataSetsSize
    /\ subscribedDataSets' = g.subscribedDataSets
    /\ subscribedDataSetsSize' = g.subscribedDataSetsSize

\* the object of the set objs with the identifier id (there is at most one)
ObjectById(objs, id) == CHOOSE o \in objs : o.identifier = id

\* UA_WriterGroup_setPubSubState: the state of the writer group id becomes state
UA_WriterGroup_setPubSubState(g, id, state) ==
    [g EXCEPT !.writerGroups =
        {IF w.identifier = id THEN [w EXCEPT !.state = state] ELSE w :
            w \in g.writerGroups}]

\* UA_ReaderGroup_setPubSubState: the state of the reader group id becomes state
UA_ReaderGroup_setPubSubState(g, id, state) ==
    [g EXCEPT !.readerGroups =
        {IF r.identifier = id THEN [r EXCEPT !.state = state] ELSE r :
            r \in g.readerGroups}]

\* UA_Server_freezeWriterGroupConfiguration / unfreeze: set the frozen flag
SetWriterGroupFrozen(g, id, frozen) ==
    [g EXCEPT !.writerGroups =
        {IF w.identifier = id THEN [w EXCEPT !.configurationFrozen = frozen] ELSE w :
            w \in g.writerGroups}]

\* UA_Server_freezeReaderGroupConfiguration / unfreeze: set the frozen flag
SetReaderGroupFrozen(g, id, frozen) ==
    [g EXCEPT !.readerGroups =
        {IF r.identifier = id THEN [r EXCEPT !.configurationFrozen = frozen] ELSE r :
            r \in g.readerGroups}]

UA_Server_unfreezeWriterGroupConfiguration(g, id) == SetWriterGroupFrozen(g, id, FALSE)
UA_Server_unfreezeReaderGroupConfiguration(g, id) == SetReaderGroupFrozen(g, id, FALSE)

\* removeDataSetWriter: refused while the writer group of the writer is frozen
removeDataSetWriter(g, dsw) ==
    IF ~ \E d \in g.dataSetWriters : d.identifier = dsw
    THEN [status |-> "BadNotFound", g |-> g]
    ELSE LET d == ObjectById(g.dataSetWriters, dsw)
             wg == ObjectById(g.writerGroups, d.linkedWriterGroup)
         IN IF wg.configurationFrozen
            THEN [status |-> "BadConfigurationError", g |-> g]
            ELSE [status |-> "Good",
                  g |-> [g EXCEPT !.dataSetWriters = g.dataSetWriters \ {d}]]

\* removeWriterGroup: refused while the group is frozen; removes its writers
removeWriterGroup(g, wg) ==
    IF ~ \E w \in g.writerGroups : w.identifier = wg
    THEN [status |-> "BadNotFound", g |-> g]
    ELSE LET w == ObjectById(g.writerGroups, wg)
         IN IF w.configurationFrozen
            THEN [status |-> "BadConfigurationError", g |-> g]
            ELSE [status |-> "Good",
                  g |-> [g EXCEPT
                            !.dataSetWriters =
                                {d \in g.dataSetWriters : d.linkedWriterGroup # wg},
                            !.writerGroups = g.writerGroups \ {w}]]

\* removeDataSetReader: refused while the reader group of the reader is frozen
removeDataSetReader(g, dsr) ==
    IF ~ \E r \in g.dataSetReaders : r.identifier = dsr
    THEN [status |-> "BadNotFound", g |-> g]
    ELSE LET r == ObjectById(g.dataSetReaders, dsr)
             rg == ObjectById(g.readerGroups, r.linkedReaderGroup)
         IN IF rg.configurationFrozen
            THEN [status |-> "BadConfigurationError", g |-> g]
            ELSE [status |-> "Good",
                  g |-> [g EXCEPT !.dataSetReaders = g.dataSetReaders \ {r}]]

\* removeReaderGroup: refused while the group is frozen; removes its readers
removeReaderGroup(g, rg) ==
    IF ~ \E r \in g.readerGroups : r.identifier = rg
    THEN [status |-> "BadNotFound", g |-> g]
    ELSE LET r == ObjectById(g.readerGroups, rg)
         IN IF r.configurationFrozen
            THEN [status |-> "BadConfigurationError", g |-> g]
            ELSE [status |-> "Good",
                  g |-> [g EXCEPT
                            !.dataSetReaders =
                                {x \in g.dataSetReaders : x.linkedReaderGroup # rg},
                            !.readerGroups = g.readerGroups \ {r}]]

\* ---- connections
\* UA_PubSubManager_addConnection without connectionsSize++
UA_PubSubManager_addConnection_NoIncrement(g, connection) ==
    [g EXCEPT !.connections = IF g.connectionsSize # 0
                              THEN Append(g.connections, connection)
                              ELSE <<connection>>,
              !.connectionsSize = g.connectionsSize]

\* UA_PubSubManager_addConnection: append, or start the list anew at size 0
UA_PubSubManager_addConnection(g, connection) ==
    [g EXCEPT !.connections = IF g.connectionsSize # 0
                              THEN Append(g.connections, connection)
                              ELSE <<connection>>,
              !.connectionsSize = g.connectionsSize + 1]

\* channelErrorHandling: unlink the connection just inserted (the last one)
\* channelErrorHandling without connectionsSize--
channelErrorHandling_KeepsSize(g) ==
    [g EXCEPT !.connections = RemoveAt(g.connections, Len(g.connections))]

channelErrorHandling(g) ==
    [g EXCEPT !.connections = RemoveAt(g.connections, Len(g.connections)),
              !.connectionsSize = g.connectionsSize - 1]

\* the loop over the writer groups without the call of
\* UA_Server_unfreezeWriterGroupConfiguration
RECURSIVE WriterGroupCascade_NoUnfreeze(_, _)
WriterGroupCascade_NoUnfreeze(g, todo) ==
    IF todo = {} THEN g
    ELSE LET writerGroup == CHOOSE w \in todo : TRUE
             g1 == UA_WriterGroup_setPubSubState(g, writerGroup,
                                                 UA_PUBSUBSTATE_DISABLED)
             g3 == removeWriterGroup(g1, writerGroup).g
         IN WriterGroupCascade_NoUnfreeze(g3, todo \ {writerGroup})

\* the loop of removePubSubConnection over the writer groups of the connection:
\* disable, unfreeze, remove; todo holds the groups not yet visited
RECURSIVE WriterGroupCascade(_, _)
WriterGroupCascade(g, todo) ==
    IF todo = {} THEN g
    ELSE LET writerGroup == CHOOSE w \in todo : TRUE
             g1 == UA_WriterGroup_setPubSubState(g, writerGroup,
                                                 UA_PUBSUBSTATE_DISABLED)
             g2 == UA_Server_unfreezeWriterGroupConfiguration(g1, writerGroup)
             g3 == removeWriterGroup(g2, writerGroup).g
         IN WriterGroupCascade(g3, todo \ {writerGroup})

\* the loop of removePubSubConnection over the reader groups of the connection
RECURSIVE ReaderGroupCascade(_, _)
ReaderGroupCascade(g, todo) ==
    IF todo = {} THEN g
    ELSE LET readerGroup == CHOOSE r \in todo : TRUE
             g1 == UA_ReaderGroup_setPubSubState(g, readerGroup,
                                                 UA_PUBSUBSTATE_DISABLED)
             g2 == UA_Server_unfreezeReaderGroupConfiguration(g1, readerGroup)
             g3 == removeReaderGroup(g2, readerGroup).g
         IN ReaderGroupCascade(g3, todo \ {readerGroup})

\* removePubSubConnection
\* removePubSubConnection whose loops do not stop at the groups of the
\* connection
removePubSubConnection_AllGroups(g, connection) ==
    LET c == IndexOfId(g.connections, connection, 1)
    IN IF c = 0 THEN [status |-> "BadNotFound", g |-> g]
       ELSE LET g1 == WriterGroupCascade(g,
                        {w.identifier : w \in g.writerGroups})
                g2 == ReaderGroupCascade(g1,
                        {r.identifier : r \in g1.readerGroups})
            IN [status |-> "Good",
                g |-> [g2 EXCEPT !.connections = RemoveAt(g2.connections, c),
                                 !.connectionsSize = g2.connectionsSize - 1]]

removePubSubConnection(g, connection) ==
    LET c == IndexOfId(g.connections, connection, 1)
    IN IF c = 0 THEN [status |-> "BadNotFound", g |-> g]
       ELSE LET g1 == WriterGroupCascade(g,
                        {w.identifier : w \in
                            {x \in g.writerGroups : x.linkedConnection = connection}})
                g2 == ReaderGroupCascade(g1,
                        {r.identifier : r \in
                            {x \in g1.readerGroups : x.linkedConnection = connection}})
            IN [status |-> "Good",
                g |-> [g2 EXCEPT !.connections = RemoveAt(g2.connections, c),
                                 !.connectionsSize = g2.connectionsSize - 1]]

\* ---- registration of a connection
\* The channel of a connection is kept as channelRegistCalls, the number of
\* calls of channel->regist. channelStatus is the status that call returns,
\* readerGroupConfig is "NULL" or a config whose transportSettings are passed
\* on to the channel.
ReaderGroupConfigs == {"NULL", "readerGroupConfig"}

ChannelStatuses == {"Good", "BadCommunicationError"}

\* UA_PubSubConnection_regist without the early return for a registered
\* connection
UA_PubSubConnection_regist_NoRegisteredTest(connectionIdentifier, readerGroupConfig, channelStatus) ==
    LET connection == UA_PubSubConnection_findConnectionbyId(connectionIdentifier)
    IN /\ IF connection = 0
          THEN /\ ret' = [op |-> "regist", status |-> "BadNotFound",
                          channelCalled |-> FALSE, transportSettings |-> "NULL"]
               /\ UNCHANGED connections
          ELSE /\ connections' =
                       [connections EXCEPT
                           ![connection].channelRegistCalls = @ + 1,
                           ![connection].isRegistered = TRUE]
               /\ ret' = [op |-> "regist", status |-> channelStatus,
                          channelCalled |-> TRUE,
                          transportSettings |->
                              IF readerGroupConfig # "NULL"
                              THEN "transportSettings" ELSE "NULL"]
       /\ UNCHANGED <<otherVars, connectionsSize, writerVars, readerVars, pdsVars,
                      sdsVars, uniqueIdCount>>

\* UA_PubSubConnection_regist that sets isRegistered only when the channel
\* returned Good
UA_PubSubConnection_regist_FlagOnSuccess(connectionIdentifier, readerGroupConfig, channelStatus) ==
    LET connection == UA_PubSubConnection_findConnectionbyId(connectionIdentifier)
    IN /\ IF connection = 0
          THEN /\ ret' = [op |-> "regist", status |-> "BadNotFound",
                          channelCalled |-> FALSE, transportSettings |-> "NULL"]
               /\ UNCHANGED connections
          ELSE IF connections[connection].isRegistered
          THEN /\ ret' = [op |-> "regist", status |-> "Good",
                          channelCalled |-> FALSE, transportSettings |-> "NULL"]
               /\ UNCHANGED connections
          ELSE /\ connections' =
                       [connections EXCEPT
                           ![connection].channelRegistCalls = @ + 1,
                           ![connection].isRegistered = (channelStatus = "Good")]
               /\ ret' = [op |-> "regist", status |-> channelStatus,
                          channelCalled |-> TRUE,
                          transportSettings |->
                              IF readerGroupConfig # "NULL"
                              THEN "transportSettings" ELSE "NULL"]
       /\ UNCHANGED <<otherVars, connectionsSize, writerVars, readerVars, pdsVars,
                      sdsVars, uniqueIdCount>>

\* UA_PubSubConnection_regist
UA_PubSubConnection_regist(connectionIdentifier, readerGroupConfig, channelStatus) ==
    LET connection == UA_PubSubConnection_findConnectionbyId(connectionIdentifier)
    IN /\ IF connection = 0
          THEN /\ ret' = [op |-> "regist", status |-> "BadNotFound",
                          channelCalled |-> FALSE, transportSettings |-> "NULL"]
               /\ UNCHANGED connections
          ELSE IF connections[connection].isRegistered
          THEN /\ ret' = [op |-> "regist", status |-> "Good",
                          channelCalled |-> FALSE, transportSettings |-> "NULL"]
               /\ UNCHANGED connections
          ELSE /\ connections' =
                       [connections EXCEPT
                           ![connection].channelRegistCalls = @ + 1,
                           ![connection].isRegistered = TRUE]
               /\ ret' = [op |-> "regist", status |-> channelStatus,
                          channelCalled |-> TRUE,
                          transportSettings |->
                              IF readerGroupConfig # "NULL"
                              THEN "transportSettings" ELSE "NULL"]
       /\ UNCHANGED <<otherVars, connectionsSize, writerVars, readerVars, pdsVars,
                      sdsVars, uniqueIdCount>>

\* ---- PublishedDataSets
\* the writers that the loops of removePublishedDataSet visit and find connected
\* to the data set pds: those below a writer group of a listed connection
WritersConnectedTo(g, pds) ==
    {d.identifier : d \in
        {x \in g.dataSetWriters :
            /\ x.connectedDataSet = pds
            /\ \E w \in g.writerGroups :
                /\ w.identifier = x.linkedWriterGroup
                /\ \E ci \in 1 .. Len(g.connections) :
                        g.connections[ci].identifier = w.linkedConnection}}

\* removeDataSetWriter for each writer of todo, the status of each call dropped
RECURSIVE RemoveWriters(_, _)
RemoveWriters(g, todo) ==
    IF todo = {} THEN g
    ELSE LET currentWriter == CHOOSE d \in todo : TRUE
         IN RemoveWriters(removeDataSetWriter(g, currentWriter).g,
                          todo \ {currentWriter})

\* removePublishedDataSet with the test of configurationFrozen behind the loops
\* over the writers
removePublishedDataSet_CascadeFirst(g, pds) ==
    LET p == IndexOfId(g.publishedDataSets, pds, 1)
    IN IF p = 0 THEN [status |-> "BadNotFound", g |-> g]
       ELSE LET g1 == RemoveWriters(g, WritersConnectedTo(g, pds))
            IN IF g.publishedDataSets[p].configurationFrozen
               THEN [status |-> "BadConfigurationError", g |-> g1]
               ELSE [status |-> "Good",
                     g |-> [g1 EXCEPT
                             !.publishedDataSetsSize = g1.publishedDataSetsSize - 1,
                             !.publishedDataSets = RemoveAt(g1.publishedDataSets, p)]]

\* removePublishedDataSet
removePublishedDataSet(g, pds) ==
    LET p == IndexOfId(g.publishedDataSets, pds, 1)
    IN IF p = 0 THEN [status |-> "BadNotFound", g |-> g]
       ELSE IF g.publishedDataSets[p].configurationFrozen
       THEN [status |-> "BadConfigurationError", g |-> g]
       ELSE LET g1 == RemoveWriters(g, WritersConnectedTo(g, pds))
            IN [status |-> "Good",
                g |-> [g1 EXCEPT
                        !.publishedDataSetsSize = g1.publishedDataSetsSize - 1,
                        !.publishedDataSets = RemoveAt(g1.publishedDataSets, p)]]

\* ---- StandaloneSubscribedDataSets
\* the readers that the loops of removeStandaloneSubscribedDataSet visit and find
\* equal to connectedReader: those below a reader group of a listed connection
ReadersEqualTo(g, connectedReader) ==
    {r.identifier : r \in
        {x \in g.dataSetReaders :
            /\ x.identifier = connectedReader
            /\ \E rg \in g.readerGroups :
                /\ rg.identifier = x.linkedReaderGroup
                /\ \E ci \in 1 .. Len(g.connections) :
                        g.connections[ci].identifier = rg.linkedConnection}}

\* removeDataSetReader for each reader of todo, the status of each call dropped
RECURSIVE RemoveReaders(_, _)
RemoveReaders(g, todo) ==
    IF todo = {} THEN g
    ELSE LET currentReader == CHOOSE r \in todo : TRUE
         IN RemoveReaders(removeDataSetReader(g, currentReader).g,
                          todo \ {currentReader})

\* removeStandaloneSubscribedDataSet
removeStandaloneSubscribedDataSet(g, sds) ==
    LET s == IndexOfId(g.subscribedDataSets, sds, 1)
    IN IF s = 0 THEN [status |-> "BadNotFound", g |-> g]
       ELSE LET g1 == RemoveReaders(g,
                        ReadersEqualTo(g, g.subscribedDataSets[s].connectedReader))
            IN [status |-> "Good",
                g |-> [g1 EXCEPT
                        !.subscribedDataSetsSize = g1.subscribedDataSetsSize - 1,
                        !.subscribedDataSets = RemoveAt(g1.subscribedDataSets, s)]]

\* the value of ret after a call that returns nothing the model reads
NoResult == [op |-> "none", status |-> "Good"]

\* UA_PubSubManager_reserveIds, called for the session sessionId; numWG and
\* numDSW are numRegWriterGroupIds and numRegDataSetWriterIds
UA_PubSubManager_reserveIds(sessionId, numWG, numDSW, transportProfileUri) ==
    LET r == ReserveIdsResult(AllocatorState, sessionId, numWG,
                              numDSW, transportProfileUri)
    IN /\ BagCardinality(r.st.reserveIds) <= MaxReserve
       /\ SetAllocatorState(r.st)
       /\ ret' = [op |-> "reserveIds", status |-> r.status,
                  writerGroupIds |-> r.writerGroupIds,
                  dataSetWriterIds |-> r.dataSetWriterIds, freed |-> r.freed]
       /\ UNCHANGED <<sessions, transportLayers, connVars, writerVars, readerVars,
                      pdsVars, sdsVars, topicVars, lockVars,
                   uniqueIdCount, monVars>>

\* UA_PubSubManager_freeIds called on its own
UA_PubSubManager_freeIds ==
    /\ SetAllocatorState(FreeIdsSweep(AllocatorState))
    /\ ret' = [op |-> "freeIds", status |-> "Good",
               freed |-> reserveIds (-) FreeIdsSweep(AllocatorState).reserveIds]
    /\ UNCHANGED <<sessions, transportLayers, connVars, writerVars, readerVars,
                   pdsVars, sdsVars, topicVars, lockVars,
                   uniqueIdCount, monVars>>

\* a client opens the session s: it enters the server's session list
createSession(s) ==
    /\ s \notin sessions
    /\ sessions' = sessions \cup {s}
    /\ ret' = NoResult
    /\ UNCHANGED <<reserveVars, transportLayers, connVars, writerVars, readerVars,
                   pdsVars, sdsVars, topicVars, lockVars,
                   uniqueIdCount, monVars>>

\* the session s is closed or times out: it leaves the server's session list
removeSession(s) ==
    /\ s \in sessions
    /\ sessions' = sessions \ {s}
    /\ ret' = NoResult
    /\ UNCHANGED <<reserveVars, transportLayers, connVars, writerVars, readerVars,
                   pdsVars, sdsVars, topicVars, lockVars,
                   uniqueIdCount, monVars>>


\* UA_PubSubManager_generateUniqueNodeId that takes the number of the entities
\* of the manager in place of ++uniqueIdCount
UA_PubSubManager_generateUniqueNodeId_FromSizes ==
    connectionsSize + publishedDataSetsSize + subscribedDataSetsSize
    + Cardinality(writerGroups) + Cardinality(dataSetWriters)
    + Cardinality(readerGroups) + Cardinality(dataSetReaders) + 1

\* UA_PubSubManager_generateUniqueNodeId: the identifier is ++uniqueIdCount
UA_PubSubManager_generateUniqueNodeId == uniqueIdCount + 1

\* UA_Server_addPubSubConnection; channelCreated is what createPubSubChannel
\* of the transport layer answers
UA_Server_addPubSubConnection(name, transportProfileUri, channelCreated) ==
    /\ uniqueIdCount < MaxNodeId
    /\ IF transportProfileUri \notin transportLayers
       THEN /\ ret' = [op |-> "addPubSubConnection", status |-> "BadNotFound"]
            /\ UNCHANGED <<connVars, uniqueIdCount>>
       ELSE LET newConnectionsField ==
                    [identifier |-> UA_NODEID_NULL, name |-> name,
                     transportProfileUri |-> transportProfileUri,
                     isRegistered |-> FALSE, channelRegistCalls |-> 0]
                g1 == UA_PubSubManager_addConnection(Graph, newConnectionsField)
            IN IF ~ channelCreated
               THEN /\ connections' = channelErrorHandling(g1).connections
                    /\ connectionsSize' = channelErrorHandling(g1).connectionsSize
                    /\ ret' = [op |-> "addPubSubConnection",
                               status |-> "BadInternalError"]
                    /\ UNCHANGED uniqueIdCount
               ELSE /\ connections' =
                        [g1.connections EXCEPT ![Len(g1.connections)].identifier =
                            UA_PubSubManager_generateUniqueNodeId]
                    /\ connectionsSize' = g1.connectionsSize
                    /\ uniqueIdCount' = UA_PubSubManager_generateUniqueNodeId
                    /\ ret' = [op |-> "addPubSubConnection", status |-> "Good"]
    /\ UNCHANGED <<otherVars, writerVars, readerVars, pdsVars, sdsVars>>

\* UA_Server_removePubSubConnection
UA_Server_removePubSubConnection(connection) ==
    LET r == removePubSubConnection(Graph, connection)
    IN /\ SetGraph(r.g)
       /\ ret' = [op |-> "removePubSubConnection", status |-> r.status,
                  children |->
                      Cardinality(WriterGroupsOf(connection))
                      + Cardinality(ReaderGroupsOf(connection))
                      + Cardinality(UNION {WritersOf(w.identifier) :
                                              w \in WriterGroupsOf(connection)})
                      + Cardinality(UNION {ReadersOf(x.identifier) :
                                              x \in ReaderGroupsOf(connection)}),
                  dataSets |->
                      {d.connectedDataSet :
                          d \in UNION {WritersOf(w.identifier) :
                                          w \in WriterGroupsOf(connection)}},
                  frozen |-> \E x \in WriterGroupsOf(connection)
                                      \cup ReaderGroupsOf(connection) :
                                x.configurationFrozen,
                  operational |-> \E x \in WriterGroupsOf(connection)
                                           \cup ReaderGroupsOf(connection) :
                                     x.state = UA_PUBSUBSTATE_OPERATIONAL]
       /\ UNCHANGED <<otherVars, uniqueIdCount>>

\* UA_Server_addPublishedDataSet without the call of
\* UA_PublishedDataSet_findPDSbyName
UA_Server_addPublishedDataSet_NoNameTest(name, publishedDataSetType) ==
    /\ uniqueIdCount < MaxNodeId
    /\ IF publishedDataSetType # "PUBLISHEDITEMS"
       THEN /\ ret' = [op |-> "addPublishedDataSet", status |-> "BadInvalidArgument"]
            /\ UNCHANGED <<pdsVars, uniqueIdCount>>
       ELSE IF name = ""
       THEN /\ ret' = [op |-> "addPublishedDataSet", status |-> "BadInvalidArgument"]
            /\ UNCHANGED <<pdsVars, uniqueIdCount>>
       ELSE LET newPDS == [identifier |-> UA_PubSubManager_generateUniqueNodeId,
                           name |-> name, configurationFrozen |-> FALSE]
            IN /\ publishedDataSets' = IF publishedDataSetsSize # 0
                                       THEN Append(publishedDataSets, newPDS)
                                       ELSE <<newPDS>>
               /\ publishedDataSetsSize' = publishedDataSetsSize + 1
               /\ uniqueIdCount' = UA_PubSubManager_generateUniqueNodeId
               /\ ret' = [op |-> "addPublishedDataSet", status |-> "Good"]
    /\ UNCHANGED <<otherVars, connVars, writerVars, readerVars, sdsVars>>

\* UA_Server_addPublishedDataSet with the config [name, publishedDataSetType]
UA_Server_addPublishedDataSet(name, publishedDataSetType) ==
    /\ uniqueIdCount < MaxNodeId
    /\ IF publishedDataSetType # "PUBLISHEDITEMS"
       THEN /\ ret' = [op |-> "addPublishedDataSet", status |-> "BadInvalidArgument"]
            /\ UNCHANGED <<pdsVars, uniqueIdCount>>
       ELSE IF name = ""
       THEN /\ ret' = [op |-> "addPublishedDataSet", status |-> "BadInvalidArgument"]
            /\ UNCHANGED <<pdsVars, uniqueIdCount>>
       ELSE IF \E i \in 1 .. Len(publishedDataSets) : publishedDataSets[i].name = name
       THEN /\ ret' = [op |-> "addPublishedDataSet",
                       status |-> "BadBrowseNameDuplicated"]
            /\ UNCHANGED <<pdsVars, uniqueIdCount>>
       ELSE LET newPDS == [identifier |-> UA_PubSubManager_generateUniqueNodeId,
                           name |-> name, configurationFrozen |-> FALSE]
            IN /\ publishedDataSets' = IF publishedDataSetsSize # 0
                                       THEN Append(publishedDataSets, newPDS)
                                       ELSE <<newPDS>>
               /\ publishedDataSetsSize' = publishedDataSetsSize + 1
               /\ uniqueIdCount' = UA_PubSubManager_generateUniqueNodeId
               /\ ret' = [op |-> "addPublishedDataSet", status |-> "Good"]
    /\ UNCHANGED <<otherVars, connVars, writerVars, readerVars, sdsVars>>

\* the width of a UA_UInt32, and the time stamp of January 1, 2000, scaled
\* down to the readings of the clock
UInt32Mod == 3
UA_DATETIMESTAMP_2000 == 1

\* what UA_DateTime_now can return
ClockReadings == UA_DATETIMESTAMP_2000 .. MaxClock

\* UA_PubSubConfigurationVersionTimeDifference when UA_DateTime_now returns now
UA_PubSubConfigurationVersionTimeDifference(now) ==
    (now - UA_DATETIMESTAMP_2000) % UInt32Mod

\* the four calls of UA_DateTime_now in UA_Server_addPublishedDataSet: the
\* clock is monotonic and can advance between any two of them
NowReadings ==
    {now \in [1 .. 4 -> ClockReadings] : \A i \in 1 .. 3 : now[i] <= now[i + 1]}

\* UA_Server_addPublishedDataSet with the DataSetMetaData it fills and the
\* result it returns; now[i] is what the i-th call of UA_DateTime_now returns
UA_Server_addPublishedDataSet_dataSetMetaData(name, publishedDataSetType, now) ==
    /\ uniqueIdCount < MaxNodeId
    /\ IF publishedDataSetType # "PUBLISHEDITEMS"
       THEN /\ ret' = [op |-> "addPublishedDataSet", status |-> "BadInvalidArgument",
                       configurationVersion |-> [majorVersion |-> 0, minorVersion |-> 0]]
            /\ UNCHANGED <<pdsVars, uniqueIdCount>>
       ELSE IF name = ""
       THEN /\ ret' = [op |-> "addPublishedDataSet", status |-> "BadInvalidArgument",
                       configurationVersion |-> [majorVersion |-> 0, minorVersion |-> 0]]
            /\ UNCHANGED <<pdsVars, uniqueIdCount>>
       ELSE IF \E i \in 1 .. Len(publishedDataSets) : publishedDataSets[i].name = name
       THEN /\ ret' = [op |-> "addPublishedDataSet",
                       status |-> "BadBrowseNameDuplicated",
                       configurationVersion |-> [majorVersion |-> 0, minorVersion |-> 0]]
            /\ UNCHANGED <<pdsVars, uniqueIdCount>>
       ELSE LET result ==
                    [majorVersion |-> UA_PubSubConfigurationVersionTimeDifference(now[1]),
                     minorVersion |-> UA_PubSubConfigurationVersionTimeDifference(now[2])]
                dataSetMetaData ==
                    [configurationVersion |->
                        [majorVersion |->
                            UA_PubSubConfigurationVersionTimeDifference(now[3]),
                         minorVersion |->
                            UA_PubSubConfigurationVersionTimeDifference(now[4])],
                     description |-> "",
                     dataSetClassId |-> "UA_GUID_NULL",
                     name |-> name]
                newPDS == [identifier |-> UA_PubSubManager_generateUniqueNodeId,
                           name |-> name, configurationFrozen |-> FALSE,
                           dataSetMetaData |-> dataSetMetaData]
            IN /\ publishedDataSets' = IF publishedDataSetsSize # 0
                                       THEN Append(publishedDataSets, newPDS)
                                       ELSE <<newPDS>>
               /\ publishedDataSetsSize' = publishedDataSetsSize + 1
               /\ uniqueIdCount' = UA_PubSubManager_generateUniqueNodeId
               /\ ret' = [op |-> "addPublishedDataSet", status |-> "Good",
                          configurationVersion |-> result]
    /\ UNCHANGED <<otherVars, connVars, writerVars, readerVars, sdsVars>>

\* UA_Server_removePublishedDataSet
UA_Server_removePublishedDataSet(pds) ==
    LET r == removePublishedDataSet(Graph, pds)
    IN /\ SetGraph(r.g)
       /\ ret' = [op |-> "removePublishedDataSet", status |-> r.status]
       /\ UNCHANGED <<otherVars, uniqueIdCount>>

\* UA_Server_addStandaloneSubscribedDataSet with the config [name]
UA_Server_addStandaloneSubscribedDataSet(name) ==
    /\ uniqueIdCount < MaxNodeId
    /\ LET newSubscribedDataSet ==
                [identifier |-> UA_PubSubManager_generateUniqueNodeId,
                 name |-> name, connectedReader |-> UA_NODEID_NULL]
       IN /\ subscribedDataSets' = IF subscribedDataSetsSize # 0
                                   THEN Append(subscribedDataSets, newSubscribedDataSet)
                                   ELSE <<newSubscribedDataSet>>
          /\ subscribedDataSetsSize' = subscribedDataSetsSize + 1
          /\ uniqueIdCount' = UA_PubSubManager_generateUniqueNodeId
          /\ ret' = [op |-> "addStandaloneSubscribedDataSet", status |-> "Good"]
    /\ UNCHANGED <<otherVars, connVars, writerVars, readerVars, pdsVars>>

\* UA_Server_removeStandaloneSubscribedDataSet
UA_Server_removeStandaloneSubscribedDataSet(sds) ==
    LET r == removeStandaloneSubscribedDataSet(Graph, sds)
    IN /\ SetGraph(r.g)
       /\ ret' = [op |-> "removeStandaloneSubscribedDataSet", status |-> r.status]
       /\ UNCHANGED <<otherVars, uniqueIdCount>>

\* UA_Server_addWriterGroup below the connection, with config.writerGroupId
UA_Server_addWriterGroup(connection, writerGroupId) ==
    /\ uniqueIdCount < MaxNodeId
    /\ IF UA_PubSubConnection_findConnectionbyId(connection) = 0
       THEN /\ ret' = [op |-> "addWriterGroup", status |-> "BadNotFound"]
            /\ UNCHANGED <<writerGroups, uniqueIdCount>>
       ELSE /\ writerGroups' = writerGroups \cup
                    {[identifier |-> UA_PubSubManager_generateUniqueNodeId,
                      linkedConnection |-> connection,
                      writerGroupId |-> writerGroupId,
                      state |-> UA_PUBSUBSTATE_DISABLED,
                      configurationFrozen |-> FALSE]}
            /\ uniqueIdCount' = UA_PubSubManager_generateUniqueNodeId
            /\ ret' = [op |-> "addWriterGroup", status |-> "Good"]
    /\ UNCHANGED <<otherVars, connVars, dataSetWriters, readerVars, pdsVars, sdsVars>>

\* UA_Server_removeWriterGroup
UA_Server_removeWriterGroup(wg) ==
    LET r == removeWriterGroup(Graph, wg)
    IN /\ SetGraph(r.g)
       /\ ret' = [op |-> "removeWriterGroup", status |-> r.status]
       /\ UNCHANGED <<otherVars, uniqueIdCount>>

\* UA_Server_addDataSetWriter below the writer group, connected to the data set
\* dataSet (UA_NODEID_NULL: a heartbeat writer), with config.dataSetWriterId
UA_Server_addDataSetWriter(writerGroup, dataSet, dataSetWriterId) ==
    /\ uniqueIdCount < MaxNodeId
    /\ IF \/ ~ \E w \in writerGroups : w.identifier = writerGroup
          \/ /\ dataSet # UA_NODEID_NULL
             /\ IndexOfId(publishedDataSets, dataSet, 1) = 0
       THEN /\ ret' = [op |-> "addDataSetWriter", status |-> "BadNotFound"]
            /\ UNCHANGED <<dataSetWriters, uniqueIdCount>>
       ELSE IF ObjectById(writerGroups, writerGroup).configurationFrozen
       THEN /\ ret' = [op |-> "addDataSetWriter", status |-> "BadConfigurationError"]
            /\ UNCHANGED <<dataSetWriters, uniqueIdCount>>
       ELSE /\ dataSetWriters' = dataSetWriters \cup
                    {[identifier |-> UA_PubSubManager_generateUniqueNodeId,
                      linkedWriterGroup |-> writerGroup,
                      dataSetWriterId |-> dataSetWriterId,
                      connectedDataSet |-> dataSet]}
            /\ uniqueIdCount' = UA_PubSubManager_generateUniqueNodeId
            /\ ret' = [op |-> "addDataSetWriter", status |-> "Good"]
    /\ UNCHANGED <<otherVars, connVars, writerGroups, readerVars, pdsVars, sdsVars>>

\* UA_Server_removeDataSetWriter
UA_Server_removeDataSetWriter(dsw) ==
    LET r == removeDataSetWriter(Graph, dsw)
    IN /\ SetGraph(r.g)
       /\ ret' = [op |-> "removeDataSetWriter", status |-> r.status]
       /\ UNCHANGED <<otherVars, uniqueIdCount>>

\* UA_Server_addReaderGroup below the connection
UA_Server_addReaderGroup(connection) ==
    /\ uniqueIdCount < MaxNodeId
    /\ IF UA_PubSubConnection_findConnectionbyId(connection) = 0
       THEN /\ ret' = [op |-> "addReaderGroup", status |-> "BadNotFound"]
            /\ UNCHANGED <<readerGroups, uniqueIdCount>>
       ELSE /\ readerGroups' = readerGroups \cup
                    {[identifier |-> UA_PubSubManager_generateUniqueNodeId,
                      linkedConnection |-> connection,
                      state |-> UA_PUBSUBSTATE_DISABLED,
                      configurationFrozen |-> FALSE]}
            /\ uniqueIdCount' = UA_PubSubManager_generateUniqueNodeId
            /\ ret' = [op |-> "addReaderGroup", status |-> "Good"]
    /\ UNCHANGED <<otherVars, connVars, writerVars, dataSetReaders, pdsVars, sdsVars>>

\* UA_Server_addDataSetReader below the reader group; sds is the standalone
\* subscribed data set the reader is bound to (UA_NODEID_NULL: none), which
\* then names the reader as its connectedReader
UA_Server_addDataSetReader(readerGroup, sds) ==
    /\ uniqueIdCount < MaxNodeId
    /\ IF \/ ~ \E r \in readerGroups : r.identifier = readerGroup
          \/ /\ sds # UA_NODEID_NULL
             /\ IndexOfId(subscribedDataSets, sds, 1) = 0
       THEN /\ ret' = [op |-> "addDataSetReader", status |-> "BadNotFound"]
            /\ UNCHANGED <<dataSetReaders, subscribedDataSets, uniqueIdCount>>
       ELSE IF \/ ObjectById(readerGroups, readerGroup).configurationFrozen
               \/ /\ sds # UA_NODEID_NULL
                  /\ subscribedDataSets[IndexOfId(subscribedDataSets, sds, 1)]
                        .connectedReader # UA_NODEID_NULL
       THEN /\ ret' = [op |-> "addDataSetReader", status |-> "BadConfigurationError"]
            /\ UNCHANGED <<dataSetReaders, subscribedDataSets, uniqueIdCount>>
       ELSE /\ dataSetReaders' = dataSetReaders \cup
                    {[identifier |-> UA_PubSubManager_generateUniqueNodeId,
                      linkedReaderGroup |-> readerGroup]}
            /\ subscribedDataSets' =
                    IF sds = UA_NODEID_NULL THEN subscribedDataSets
                    ELSE [subscribedDataSets EXCEPT
                            ![IndexOfId(subscribedDataSets, sds, 1)].connectedReader =
                                UA_PubSubManager_generateUniqueNodeId]
            /\ uniqueIdCount' = UA_PubSubManager_generateUniqueNodeId
            /\ ret' = [op |-> "addDataSetReader", status |-> "Good"]
    /\ UNCHANGED <<otherVars, connVars, writerVars, readerGroups, pdsVars,
                   subscribedDataSetsSize>>

\* UA_Server_freezeWriterGroupConfiguration
UA_Server_freezeWriterGroupConfiguration(wg) ==
    /\ \E w \in writerGroups : w.identifier = wg /\ ~ w.configurationFrozen
    /\ SetGraph(SetWriterGroupFrozen(Graph, wg, TRUE))
    /\ ret' = NoResult
    /\ UNCHANGED <<otherVars, uniqueIdCount>>

\* UA_Server_freezeReaderGroupConfiguration
UA_Server_freezeReaderGroupConfiguration(rg) ==
    /\ \E r \in readerGroups : r.identifier = rg /\ ~ r.configurationFrozen
    /\ SetGraph(SetReaderGroupFrozen(Graph, rg, TRUE))
    /\ ret' = NoResult
    /\ UNCHANGED <<otherVars, uniqueIdCount>>

\* UA_Server_setWriterGroupOperational
UA_Server_setWriterGroupOperational(wg) ==
    /\ \E w \in writerGroups :
            w.identifier = wg /\ w.state # UA_PUBSUBSTATE_OPERATIONAL
    /\ SetGraph(UA_WriterGroup_setPubSubState(Graph, wg, UA_PUBSUBSTATE_OPERATIONAL))
    /\ ret' = NoResult
    /\ UNCHANGED <<otherVars, uniqueIdCount>>

\* UA_Server_setReaderGroupOperational
UA_Server_setReaderGroupOperational(rg) ==
    /\ \E r \in readerGroups :
            r.identifier = rg /\ r.state # UA_PUBSUBSTATE_OPERATIONAL
    /\ SetGraph(UA_ReaderGroup_setPubSubState(Graph, rg, UA_PUBSUBSTATE_OPERATIONAL))
    /\ ret' = NoResult
    /\ UNCHANGED <<otherVars, uniqueIdCount>>

\* the configuration of the PublishedDataSet pds is frozen (its
\* configurationFrozen flag is set)
freezePublishedDataSetConfiguration(pds) ==
    /\ IndexOfId(publishedDataSets, pds, 1) # 0
    /\ ~ publishedDataSets[IndexOfId(publishedDataSets, pds, 1)].configurationFrozen
    /\ publishedDataSets' =
            [publishedDataSets EXCEPT
                ![IndexOfId(publishedDataSets, pds, 1)].configurationFrozen = TRUE]
    /\ ret' = NoResult
    /\ UNCHANGED <<otherVars, connVars, writerVars, readerVars, publishedDataSetsSize,
                   sdsVars, uniqueIdCount>>

\* ---- TopicAssigns
\* UA_PubSubManager_addPubSubTopicAssign: readerGroup is the ReaderGroup the
\* caller has at hand
UA_PubSubManager_addPubSubTopicAssign(readerGroup, topic) ==
    /\ Len(topicAssign) < MaxTopicAssigns
    /\ \E r \in readerGroups : r.identifier = readerGroup
    /\ LET newTopicAssign == [rgIdentifier |-> readerGroup, topic |-> topic]
       IN topicAssign' = IF topicAssignSize # 0
                         THEN Append(topicAssign, newTopicAssign)
                         ELSE <<newTopicAssign>>
    /\ topicAssignSize' = topicAssignSize + 1
    /\ ret' = [op |-> "addPubSubTopicAssign", status |-> "Good"]
    /\ UNCHANGED <<sessions, reserveVars, transportLayers, connVars, writerVars,
                   readerVars, pdsVars, sdsVars, uniqueIdCount, monVars, lockVars>>

\* ---- teardown of the manager
\* the identifiers of the elements of a list, in the order of the list
IdentifiersOf(list) == [i \in 1 .. Len(list) |-> list[i].identifier]

\* UA_PubSubManager_delete: the loop over the connections
RECURSIVE DeleteConnections(_, _)
DeleteConnections(g, ids) ==
    IF ids = <<>> THEN g
    ELSE DeleteConnections(removePubSubConnection(g, Head(ids)).g, Tail(ids))

\* UA_PubSubManager_delete: the loop over the PublishedDataSets
RECURSIVE DeletePublishedDataSets(_, _)
DeletePublishedDataSets(g, ids) ==
    IF ids = <<>> THEN g
    ELSE DeletePublishedDataSets(removePublishedDataSet(g, Head(ids)).g, Tail(ids))

\* UA_PubSubManager_delete: the loop over the StandaloneSubscribedDataSets
RECURSIVE DeleteSubscribedDataSets(_, _)
DeleteSubscribedDataSets(g, ids) ==
    IF ids = <<>> THEN g
    ELSE DeleteSubscribedDataSets(removeStandaloneSubscribedDataSet(g, Head(ids)).g,
                                  Tail(ids))

\* UA_PubSubManager_delete without the free of the list of the transport layers
UA_PubSubManager_delete_KeepsTransportLayers ==
    LET g1 == DeleteConnections(Graph, IdentifiersOf(connections))
        g2 == DeletePublishedDataSets(g1, IdentifiersOf(g1.publishedDataSets))
        g3 == DeleteSubscribedDataSets(g2, IdentifiersOf(g2.subscribedDataSets))
    IN /\ SetGraph(g3)
       /\ topicAssign' = <<>>
       /\ topicAssignSize' = topicAssignSize - Len(topicAssign)
       /\ reserveIds' = EmptyBag
       /\ reserveIdsSize' = reserveIdsSize - BagCardinality(reserveIds)
       /\ ret' = [op |-> "delete", status |-> "Good",
                  writers |-> g1.dataSetWriters, readers |-> g2.dataSetReaders]
       /\ UNCHANGED <<sessions, next_id_writerGroup, next_id_writer, uniqueIdCount,
                      transportLayers, monVars, lockVars>>

\* UA_PubSubManager_delete. The entities are removed in the order connections,
\* PublishedDataSets, TopicAssigns, ReserveIds, transport layers,
\* StandaloneSubscribedDataSets; ret keeps the writers and readers that were
\* left when the loops over the data sets began.
UA_PubSubManager_delete ==
    LET g1 == DeleteConnections(Graph, IdentifiersOf(connections))
        g2 == DeletePublishedDataSets(g1, IdentifiersOf(g1.publishedDataSets))
        g3 == DeleteSubscribedDataSets(g2, IdentifiersOf(g2.subscribedDataSets))
    IN /\ SetGraph(g3)
       /\ topicAssign' = <<>>
       /\ topicAssignSize' = topicAssignSize - Len(topicAssign)
       /\ reserveIds' = EmptyBag
       /\ reserveIdsSize' = reserveIdsSize - BagCardinality(reserveIds)
       /\ transportLayers' = {}
       /\ ret' = [op |-> "delete", status |-> "Good",
                  writers |-> g1.dataSetWriters, readers |-> g2.dataSetReaders]
       /\ UNCHANGED <<sessions, next_id_writerGroup, next_id_writer, uniqueIdCount,
                      monVars, lockVars>>

\* ---- monitoring of the message receive timeout of a DataSetReader
\* The variables msgRcvTimeoutTimerCallback, msgRcvTimeoutTimerId and
\* messageReceiveTimeout are the fields of one DataSetReader, the data argument
\* of the monitoring functions. A timer of the event loop is [id, interval]; it
\* is cyclic and expires again and again until it is removed.
UA_PUBSUB_COMPONENT_DATASETREADER == "UA_PUBSUB_COMPONENT_DATASETREADER"
UA_PUBSUB_COMPONENT_CONNECTION == "UA_PUBSUB_COMPONENT_CONNECTION"
UA_PUBSUB_MONITORING_MESSAGE_RECEIVE_TIMEOUT == "UA_PUBSUB_MONITORING_MESSAGE_RECEIVE_TIMEOUT"

\* the values of config.messageReceiveTimeout, in ms
MessageReceiveTimeouts == {10, 20}

\* the values of eComponentType and of eMonitoringType the monitoring functions
\* are called with; "default" is a value their switch has no case for
ComponentTypes == {UA_PUBSUB_COMPONENT_DATASETREADER, UA_PUBSUB_COMPONENT_CONNECTION}

MonitoringTypes == {UA_PUBSUB_MONITORING_MESSAGE_RECEIVE_TIMEOUT, "default"}

\* the switch of the monitoring functions without the inner switch over
\* eMonitoringType
MonitoringSupported_ComponentOnly(eComponentType, eMonitoringType) ==
    eComponentType = UA_PUBSUB_COMPONENT_DATASETREADER

\* the switch of the monitoring functions over eComponentType and
\* eMonitoringType
MonitoringSupported(eComponentType, eMonitoringType) ==
    /\ eComponentType = UA_PUBSUB_COMPONENT_DATASETREADER
    /\ eMonitoringType = UA_PUBSUB_MONITORING_MESSAGE_RECEIVE_TIMEOUT

\* eventLoop->addCyclicCallback: a new timer under a new callback id; when it
\* fails the event loop and *callbackId stay as they are
addCyclicCallback(tm, counter, interval_ms, callbackId, status) ==
    IF status = "Good"
    THEN [status |-> status, timers |-> tm \cup {[id |-> counter + 1,
                                                  interval |-> interval_ms]},
          idCounter |-> counter + 1, callbackId |-> counter + 1]
    ELSE [status |-> status, timers |-> tm, idCounter |-> counter,
          callbackId |-> callbackId]

\* eventLoop->modifyCyclicCallback
modifyCyclicCallback(tm, callbackId, interval_ms) ==
    IF \E t \in tm : t.id = callbackId
    THEN [status |-> "Good",
          timers |-> {IF t.id = callbackId
                      THEN [t EXCEPT !.interval = interval_ms] ELSE t : t \in tm}]
    ELSE [status |-> "BadNotFound", timers |-> tm]

\* eventLoop->removeCyclicCallback
removeCyclicCallback(tm, callbackId) == {t \in tm : t.id # callbackId}

\* UA_PubSubComponent_createMonitoring
UA_PubSubComponent_createMonitoring(eComponentType, eMonitoringType) ==
    /\ IF MonitoringSupported(eComponentType, eMonitoringType)
       THEN /\ msgRcvTimeoutTimerCallback' = "callback"
            /\ ret' = [op |-> "createMonitoring", status |-> "Good"]
       ELSE /\ ret' = [op |-> "createMonitoring", status |-> "BadNotSupported"]
            /\ UNCHANGED msgRcvTimeoutTimerCallback
    /\ UNCHANGED <<sessions, reserveVars, transportLayers, connVars, writerVars,
                   readerVars, pdsVars, sdsVars, topicVars, lockVars,
                   uniqueIdCount, msgRcvTimeoutTimerId,
                   messageReceiveTimeout, timers, idCounter, trampoline, arming>>

\* UA_PubSubComponent_startMonitoring; status is what addCyclicCallback of the
\* event loop answers
UA_PubSubComponent_startMonitoring(eComponentType, eMonitoringType, status) ==
    /\ idCounter < MaxTimers
    /\ IF MonitoringSupported(eComponentType, eMonitoringType)
       THEN LET r == addCyclicCallback(timers, idCounter, messageReceiveTimeout,
                                       msgRcvTimeoutTimerId, status)
            IN /\ timers' = r.timers
               /\ idCounter' = r.idCounter
               /\ msgRcvTimeoutTimerId' = r.callbackId
               /\ arming' = IF r.status = "Good"
                            THEN [active |-> TRUE, fired |-> 0] ELSE arming
               /\ ret' = [op |-> "startMonitoring", status |-> r.status]
       ELSE /\ ret' = [op |-> "startMonitoring", status |-> "BadNotSupported"]
            /\ UNCHANGED <<timers, idCounter, msgRcvTimeoutTimerId, arming>>
    /\ UNCHANGED <<sessions, reserveVars, transportLayers, connVars, writerVars,
                   readerVars, pdsVars, sdsVars, topicVars, lockVars,
                   uniqueIdCount,
                   msgRcvTimeoutTimerCallback, messageReceiveTimeout, trampoline>>

\* UA_PubSubComponent_stopMonitoring
UA_PubSubComponent_stopMonitoring(eComponentType, eMonitoringType) ==
    /\ IF MonitoringSupported(eComponentType, eMonitoringType)
       THEN /\ timers' = removeCyclicCallback(timers, msgRcvTimeoutTimerId)
            /\ arming' = [active |-> FALSE, fired |-> 0]
            /\ ret' = [op |-> "stopMonitoring", status |-> "Good"]
       ELSE /\ ret' = [op |-> "stopMonitoring", status |-> "BadNotSupported"]
            /\ UNCHANGED <<timers, arming>>
    /\ UNCHANGED <<sessions, reserveVars, transportLayers, connVars, writerVars,
                   readerVars, pdsVars, sdsVars, topicVars, lockVars,
                   uniqueIdCount,
                   msgRcvTimeoutTimerCallback, msgRcvTimeoutTimerId,
                   messageReceiveTimeout, idCounter, trampoline>>

\* UA_PubSubComponent_updateMonitoringInterval
UA_PubSubComponent_updateMonitoringInterval(eComponentType, eMonitoringType) ==
    /\ IF MonitoringSupported(eComponentType, eMonitoringType)
       THEN LET r == modifyCyclicCallback(timers, msgRcvTimeoutTimerId,
                                          messageReceiveTimeout)
            IN /\ timers' = r.timers
               /\ ret' = [op |-> "updateMonitoringInterval", status |-> r.status]
       ELSE /\ ret' = [op |-> "updateMonitoringInterval",
                       status |-> "BadNotSupported"]
            /\ UNCHANGED timers
    /\ UNCHANGED <<sessions, reserveVars, transportLayers, connVars, writerVars,
                   readerVars, pdsVars, sdsVars, topicVars, lockVars,
                   uniqueIdCount,
                   msgRcvTimeoutTimerCallback, msgRcvTimeoutTimerId,
                   messageReceiveTimeout, idCounter, trampoline, arming>>

\* UA_PubSubComponent_deleteMonitoring: it writes to the log
UA_PubSubComponent_deleteMonitoring(eComponentType, eMonitoringType) ==
    /\ ret' = [op |-> "deleteMonitoring",
               status |-> IF MonitoringSupported(eComponentType, eMonitoringType)
                          THEN "Good" ELSE "BadNotSupported"]
    /\ UNCHANGED <<sessions, reserveVars, transportLayers, connVars, writerVars,
                   readerVars, pdsVars, sdsVars, topicVars, lockVars,
                   uniqueIdCount, monVars>>

\* monitoringReceiveTimeoutOnce, first statement: the timer callbackId of the
\* event loop expires and the callback of the reader is called. What the
\* callback calls in turn are the steps taken while trampoline is not 0.
monitoringReceiveTimeoutOnce_callback(callbackId) ==
    /\ trampoline = 0
    /\ \E t \in timers : t.id = callbackId
    /\ msgRcvTimeoutTimerCallback # "NULL"
    /\ trampoline' = callbackId
    /\ arming' = IF arming.active /\ arming.fired < 2
                 THEN [arming EXCEPT !.fired = @ + 1] ELSE arming
    /\ ret' = [op |-> "msgRcvTimeoutTimerCallback", status |-> "Good"]
    /\ UNCHANGED <<sessions, reserveVars, transportLayers, connVars, writerVars,
                   readerVars, pdsVars, sdsVars, topicVars, lockVars,
                   uniqueIdCount,
                   msgRcvTimeoutTimerCallback, msgRcvTimeoutTimerId,
                   messageReceiveTimeout, timers, idCounter>>

\* monitoringReceiveTimeoutOnce, after the callback has returned: the timer
\* under the handle of the reader is removed and the handle is set to 0
monitoringReceiveTimeoutOnce_return ==
    /\ trampoline # 0
    /\ timers' = removeCyclicCallback(timers, msgRcvTimeoutTimerId)
    /\ msgRcvTimeoutTimerId' = 0
    /\ trampoline' = 0
    /\ ret' = [op |-> "monitoringReceiveTimeoutOnce", status |-> "Good"]
    /\ UNCHANGED <<sessions, reserveVars, transportLayers, connVars, writerVars,
                   readerVars, pdsVars, sdsVars, topicVars, lockVars,
                   uniqueIdCount,
                   msgRcvTimeoutTimerCallback, messageReceiveTimeout, idCounter,
                   arming>>

\* the configuration of the reader gets another messageReceiveTimeout
setMessageReceiveTimeout(timeout) ==
    /\ timeout # messageReceiveTimeout
    /\ messageReceiveTimeout' = timeout
    /\ ret' = NoResult
    /\ UNCHANGED <<sessions, reserveVars, transportLayers, connVars, writerVars,
                   readerVars, pdsVars, sdsVars, topicVars, lockVars,
                   uniqueIdCount,
                   msgRcvTimeoutTimerCallback, msgRcvTimeoutTimerId, timers,
                   idCounter, trampoline, arming>>

\* ---- the service mutex and the threads that call into the manager
\* The threads of the application; the timers run on the thread of the event
\* loop, which is none of them.
Threads == {"t1", "t2"}

\* a thread that is inside no call
Idle == [op |-> "idle"]

Init ==
    /\ sessions = {}
    /\ reserveIds = EmptyBag
    /\ reserveIdsSize = 0
    /\ next_id_writerGroup = UA_RESERVEID_FIRST_ID
    /\ next_id_writer = UA_RESERVEID_FIRST_ID
    /\ transportLayers = {ProfileUdpUadp, ProfileMqttUadp}
    /\ connections = <<>>
    /\ connectionsSize = 0
    /\ writerGroups = {}
    /\ dataSetWriters = {}
    /\ readerGroups = {}
    /\ dataSetReaders = {}
    /\ publishedDataSets = <<>>
    /\ publishedDataSetsSize = 0
    /\ subscribedDataSets = <<>>
    /\ subscribedDataSetsSize = 0
    /\ topicAssign = <<>>
    /\ topicAssignSize = 0
    /\ uniqueIdCount = 0
    /\ msgRcvTimeoutTimerCallback = "NULL"
    /\ msgRcvTimeoutTimerId = 0
    /\ messageReceiveTimeout = 10
    /\ timers = {}
    /\ idCounter = 0
    /\ trampoline = 0
    /\ arming = [active |-> FALSE, fired |-> 0]
    /\ serviceMutex = "unlocked"
    /\ pc = [t \in Threads |-> Idle]
    /\ ret = NoResult

\* the sessions a call can come from: the open ones and the admin session
Callers == sessions \cup {AdminSession}

NodeIds == 1 .. MaxNodeId

\* the allocator, the sessions, and the entities its free test looks at
NextReserve ==
    \/ \E s \in ClientSessions : createSession(s)
    \/ \E s \in ClientSessions : removeSession(s)
    \/ \E s \in Callers, nwg \in 0 .. MaxRequest, ndsw \in 0 .. 1,
          uri \in {ProfileUdpUadp, ProfileEthUadp} :
            UA_PubSubManager_reserveIds(s, nwg, ndsw, uri)
    \/ UA_PubSubManager_freeIds

SpecReserve == Init /\ [][NextReserve]_vars

\* the allocator together with the entities its free test looks at
NextIds ==
    \/ \E nwg \in 0 .. 1, ndsw \in 0 .. 1 :
            UA_PubSubManager_reserveIds(AdminSession, nwg, ndsw, ProfileUdpUadp)
    \/ \E uri \in {ProfileUdpUadp, ProfileMqttUadp} :
            /\ uniqueIdCount < MaxIdsNodes
            /\ UA_Server_addPubSubConnection("c", uri, TRUE)
    \/ \E c \in NodeIds, id \in ReservedRange :
            /\ uniqueIdCount < MaxIdsNodes
            /\ UA_Server_addWriterGroup(c, id)
    \/ \E w \in NodeIds, id \in ReservedRange :
            /\ uniqueIdCount < MaxIdsNodes
            /\ UA_Server_addDataSetWriter(w, UA_NODEID_NULL, id)
    \/ \E w \in NodeIds : UA_Server_removeWriterGroup(w)
    \/ \E d \in NodeIds : UA_Server_removeDataSetWriter(d)

SpecIds == Init /\ [][NextIds]_vars

\* the entity graph: the registries and the writer / reader groups
NextGraph ==
    \/ \E uri \in {ProfileUdpUadp, ProfileMqttJson}, ok \in BOOLEAN :
            UA_Server_addPubSubConnection("c", uri, ok)
    \/ \E c \in NodeIds : UA_Server_removePubSubConnection(c)
    \/ \E name \in {"pds"} : UA_Server_addPublishedDataSet(name, "PUBLISHEDITEMS")
    \/ \E p \in NodeIds : UA_Server_removePublishedDataSet(p)
    \/ UA_Server_addStandaloneSubscribedDataSet("sds")
    \/ \E s \in NodeIds : UA_Server_removeStandaloneSubscribedDataSet(s)
    \/ \E c \in NodeIds : UA_Server_addWriterGroup(c, 0)
    \/ \E w \in NodeIds, p \in NodeIds \cup {UA_NODEID_NULL} :
            UA_Server_addDataSetWriter(w, p, 0)
    \/ \E c \in NodeIds : UA_Server_addReaderGroup(c)
    \/ \E r \in NodeIds, s \in NodeIds \cup {UA_NODEID_NULL} :
            UA_Server_addDataSetReader(r, s)
    \/ \E w \in NodeIds : UA_Server_freezeWriterGroupConfiguration(w)
    \/ \E r \in NodeIds : UA_Server_freezeReaderGroupConfiguration(r)
    \/ \E w \in NodeIds : UA_Server_setWriterGroupOperational(w)
    \/ \E r \in NodeIds : UA_Server_setReaderGroupOperational(r)

SpecGraph == Init /\ [][NextGraph]_vars

\* the publishedDataSetType values of a config
PublishedDataSetTypes ==
    {"PUBLISHEDITEMS", "PUBLISHEDEVENTS", "PUBLISHEDITEMS_TEMPLATE",
     "PUBLISHEDEVENTS_TEMPLATE"}

\* the PublishedDataSets, with the writers that refer to them
NextPds ==
    \/ \E name \in {"a", "b", ""}, type \in PublishedDataSetTypes :
            UA_Server_addPublishedDataSet(name, type)
    \/ \E p \in NodeIds : UA_Server_removePublishedDataSet(p)
    \/ \E p \in NodeIds : freezePublishedDataSetConfiguration(p)
    \/ UA_Server_addPubSubConnection("c", ProfileUdpUadp, TRUE)
    \/ \E c \in NodeIds : UA_Server_addWriterGroup(c, 0)
    \/ \E w \in NodeIds, p \in NodeIds : UA_Server_addDataSetWriter(w, p, 0)

SpecPds == Init /\ [][NextPds]_vars

\* the removal of a connection among the other entities of the manager
NextFrame ==
    \/ UA_PubSubManager_reserveIds(AdminSession, 1, 0, ProfileUdpUadp)
    \/ UA_Server_addPubSubConnection("c", ProfileUdpUadp, TRUE)
    \/ \E c \in NodeIds : UA_Server_removePubSubConnection(c)
    \/ UA_Server_addPublishedDataSet("pds", "PUBLISHEDITEMS")
    \/ UA_Server_addStandaloneSubscribedDataSet("sds")
    \/ \E c \in NodeIds : UA_Server_addWriterGroup(c, 0)
    \/ \E w \in NodeIds, p \in NodeIds : UA_Server_addDataSetWriter(w, p, 0)
    \/ \E c \in NodeIds : UA_Server_addReaderGroup(c)
    \/ \E r \in NodeIds, sd \in NodeIds : UA_Server_addDataSetReader(r, sd)

SpecFrame == Init /\ [][NextFrame]_vars

\* the registration of the connections
NextRegist ==
    \/ UA_Server_addPubSubConnection("c", ProfileUdpUadp, TRUE)
    \/ \E c \in NodeIds : UA_Server_removePubSubConnection(c)
    \/ \E c \in NodeIds, cfg \in ReaderGroupConfigs, st \in ChannelStatuses :
            UA_PubSubConnection_regist(c, cfg, st)

SpecRegist == Init /\ [][NextRegist]_vars

\* the monitoring of the message receive timeout of a reader; the reader asks
\* for the start of the monitoring after it has created it
NextMonitor ==
    \/ \E ct \in ComponentTypes, mt \in MonitoringTypes :
            UA_PubSubComponent_createMonitoring(ct, mt)
    \/ \E ct \in ComponentTypes, mt \in MonitoringTypes,
          status \in {"Good", "BadOutOfMemory"} :
            /\ msgRcvTimeoutTimerCallback # "NULL"
            /\ UA_PubSubComponent_startMonitoring(ct, mt, status)
    \/ \E ct \in ComponentTypes, mt \in MonitoringTypes :
            UA_PubSubComponent_stopMonitoring(ct, mt)
    \/ \E ct \in ComponentTypes, mt \in MonitoringTypes :
            UA_PubSubComponent_updateMonitoringInterval(ct, mt)
    \/ \E ct \in ComponentTypes, mt \in MonitoringTypes :
            UA_PubSubComponent_deleteMonitoring(ct, mt)
    \/ \E t \in 1 .. MaxTimers : monitoringReceiveTimeoutOnce_callback(t)
    \/ monitoringReceiveTimeoutOnce_return
    \/ \E timeout \in MessageReceiveTimeouts : setMessageReceiveTimeout(timeout)

SpecMonitor == Init /\ [][NextMonitor]_vars

\* the teardown of a manager that holds entities of every kind
NextDestroy ==
    \/ UA_PubSubManager_delete
    \/ UA_Server_addPubSubConnection("c", ProfileUdpUadp, TRUE)
    \/ UA_Server_addPublishedDataSet("pds", "PUBLISHEDITEMS")
    \/ \E p \in NodeIds : freezePublishedDataSetConfiguration(p)
    \/ UA_Server_addStandaloneSubscribedDataSet("sds")
    \/ \E c \in NodeIds : UA_Server_addWriterGroup(c, 0)
    \/ \E w \in NodeIds, p \in NodeIds : UA_Server_addDataSetWriter(w, p, 0)
    \/ \E w \in NodeIds : UA_Server_freezeWriterGroupConfiguration(w)
    \/ \E c \in NodeIds : UA_Server_addReaderGroup(c)
    \/ \E r \in NodeIds, sd \in NodeIds : UA_Server_addDataSetReader(r, sd)
    \/ \E r \in NodeIds : UA_PubSubManager_addPubSubTopicAssign(r, "topic")
    \/ \E s \in ClientSessions : createSession(s)
    \/ \E s \in Callers :
            UA_PubSubManager_reserveIds(s, 1, 0, ProfileUdpUadp)

SpecDestroy == Init /\ [][NextDestroy]_vars

\* ---- the calls of the threads, step by step
\* A call that takes the service mutex is two steps: UA_LOCK, which waits
\* until the mutex is free, and the rest of the wrapper up to UA_UNLOCK. A
\* call that takes no mutex is split where another thread can run in
\* between.

\* UA_Server_removePubSubConnection: UA_LOCK(&server->serviceMutex)
UA_Server_removePubSubConnection_LOCK(t, connection) ==
    /\ pc[t] = Idle
    /\ serviceMutex = "unlocked"
    /\ serviceMutex' = t
    /\ pc' = [pc EXCEPT ![t] = [op |-> "removePubSubConnection", arg |-> connection]]
    /\ UNCHANGED <<unlockedVars, connVars, writerVars, readerVars, pdsVars, sdsVars,
                   uniqueIdCount, ret>>

\* UA_Server_removePubSubConnection: removePubSubConnection and UA_UNLOCK
UA_Server_removePubSubConnection_UNLOCK(t) ==
    /\ pc[t].op = "removePubSubConnection"
    /\ LET r == removePubSubConnection(Graph, pc[t].arg)
       IN /\ SetGraph(r.g)
          /\ ret' = [op |-> "removePubSubConnection", status |-> r.status]
    /\ serviceMutex' = "unlocked"
    /\ pc' = [pc EXCEPT ![t] = Idle]
    /\ UNCHANGED <<unlockedVars, uniqueIdCount>>

\* UA_Server_removePublishedDataSet: UA_LOCK(&server->serviceMutex)
UA_Server_removePublishedDataSet_LOCK(t, pds) ==
    /\ pc[t] = Idle
    /\ serviceMutex = "unlocked"
    /\ serviceMutex' = t
    /\ pc' = [pc EXCEPT ![t] = [op |-> "removePublishedDataSet", arg |-> pds]]
    /\ UNCHANGED <<unlockedVars, connVars, writerVars, readerVars, pdsVars, sdsVars,
                   uniqueIdCount, ret>>

\* UA_Server_removePublishedDataSet: removePublishedDataSet and UA_UNLOCK
UA_Server_removePublishedDataSet_UNLOCK(t) ==
    /\ pc[t].op = "removePublishedDataSet"
    /\ LET r == removePublishedDataSet(Graph, pc[t].arg)
       IN /\ SetGraph(r.g)
          /\ ret' = [op |-> "removePublishedDataSet", status |-> r.status]
    /\ serviceMutex' = "unlocked"
    /\ pc' = [pc EXCEPT ![t] = Idle]
    /\ UNCHANGED <<unlockedVars, uniqueIdCount>>

\* UA_Server_removeStandaloneSubscribedDataSet: UA_LOCK(&server->serviceMutex)
UA_Server_removeStandaloneSubscribedDataSet_LOCK(t, sds) ==
    /\ pc[t] = Idle
    /\ serviceMutex = "unlocked"
    /\ serviceMutex' = t
    /\ pc' = [pc EXCEPT ![t] = [op |-> "removeStandaloneSubscribedDataSet",
                                arg |-> sds]]
    /\ UNCHANGED <<unlockedVars, connVars, writerVars, readerVars, pdsVars, sdsVars,
                   uniqueIdCount, ret>>

\* UA_Server_removeStandaloneSubscribedDataSet:
\* removeStandaloneSubscribedDataSet and UA_UNLOCK
UA_Server_removeStandaloneSubscribedDataSet_UNLOCK(t) ==
    /\ pc[t].op = "removeStandaloneSubscribedDataSet"
    /\ LET r == removeStandaloneSubscribedDataSet(Graph, pc[t].arg)
       IN /\ SetGraph(r.g)
          /\ ret' = [op |-> "removeStandaloneSubscribedDataSet", status |-> r.status]
    /\ serviceMutex' = "unlocked"
    /\ pc' = [pc EXCEPT ![t] = Idle]
    /\ UNCHANGED <<unlockedVars, uniqueIdCount>>

\* UA_Server_addPubSubConnection up to the return of createAndAddConnection:
\* no UA_LOCK; the connection is in the list and its identifier is still
\* UA_NODEID_NULL
UA_Server_addPubSubConnection_createAndAddConnection(t, name, transportProfileUri) ==
    /\ pc[t] = Idle
    /\ uniqueIdCount + Cardinality({u \in Threads : pc[u].op = "addPubSubConnection"})
          < MaxLockIds
    /\ IF transportProfileUri \notin transportLayers
       THEN /\ ret' = [op |-> "addPubSubConnection", status |-> "BadNotFound"]
            /\ UNCHANGED <<connVars, pc>>
       ELSE LET newConnectionsField ==
                    [identifier |-> UA_NODEID_NULL, name |-> name,
                     transportProfileUri |-> transportProfileUri,
                     isRegistered |-> FALSE, channelRegistCalls |-> 0]
                g1 == UA_PubSubManager_addConnection(Graph, newConnectionsField)
            IN /\ connections' = g1.connections
               /\ connectionsSize' = g1.connectionsSize
               /\ pc' = [pc EXCEPT ![t] = [op |-> "addPubSubConnection", arg |-> name]]
               /\ UNCHANGED ret
    /\ UNCHANGED <<unlockedVars, serviceMutex, writerVars, readerVars, pdsVars, sdsVars,
                   uniqueIdCount>>

\* the place in the list of the connection that thread t has inserted and
\* not yet named with an identifier
NewConnectionsFieldOf(t) ==
    CHOOSE i \in 1 .. Len(connections) :
        /\ connections[i].identifier = UA_NODEID_NULL
        /\ connections[i].name = pc[t].arg

\* UA_Server_addPubSubConnection from createPubSubChannel on: still no
\* UA_LOCK; channelErrorHandling unlinks the connection of this call,
\* assignConnectionIdentifier names it
UA_Server_addPubSubConnection_createPubSubChannel(t, channelCreated) ==
    /\ pc[t].op = "addPubSubConnection"
    /\ IF ~ channelCreated
       THEN /\ connections' = RemoveAt(connections, NewConnectionsFieldOf(t))
            /\ connectionsSize' = connectionsSize - 1
            /\ ret' = [op |-> "addPubSubConnection", status |-> "BadInternalError"]
            /\ UNCHANGED uniqueIdCount
       ELSE /\ connections' =
                [connections EXCEPT ![NewConnectionsFieldOf(t)].identifier =
                    UA_PubSubManager_generateUniqueNodeId]
            /\ UNCHANGED connectionsSize
            /\ uniqueIdCount' = UA_PubSubManager_generateUniqueNodeId
            /\ ret' = [op |-> "addPubSubConnection", status |-> "Good"]
    /\ pc' = [pc EXCEPT ![t] = Idle]
    /\ UNCHANGED <<unlockedVars, serviceMutex, writerVars, readerVars, pdsVars, sdsVars>>

\* The threads of the application call into the manager while the event loop
\* runs the timer of the reader, which is started once. Each thread inserts
\* connections of its own name; there is at most one PublishedDataSet and one
\* StandaloneSubscribedDataSet at a time.
NextLock ==
    \/ \E t \in Threads, id \in 1 .. MaxLockIds :
           UA_Server_removePubSubConnection_LOCK(t, id)
    \/ \E t \in Threads : UA_Server_removePubSubConnection_UNLOCK(t)
    \/ \E t \in Threads, id \in 1 .. MaxLockIds :
           UA_Server_removePublishedDataSet_LOCK(t, id)
    \/ \E t \in Threads : UA_Server_removePublishedDataSet_UNLOCK(t)
    \/ \E t \in Threads, id \in 1 .. MaxLockIds :
           UA_Server_removeStandaloneSubscribedDataSet_LOCK(t, id)
    \/ \E t \in Threads : UA_Server_removeStandaloneSubscribedDataSet_UNLOCK(t)
    \/ \E t \in Threads, uri \in {ProfileUdpUadp, ProfileMqttJson} :
           UA_Server_addPubSubConnection_createAndAddConnection(t, t, uri)
    \/ \E t \in Threads, channelCreated \in BOOLEAN :
           UA_Server_addPubSubConnection_createPubSubChannel(t, channelCreated)
    \/ /\ publishedDataSetsSize = 0
       /\ uniqueIdCount < MaxLockIds
       /\ UA_Server_addPublishedDataSet("pds", "PUBLISHEDITEMS")
    \/ /\ subscribedDataSetsSize = 0
       /\ uniqueIdCount < MaxLockIds
       /\ UA_Server_addStandaloneSubscribedDataSet("sds")
    \/ UA_PubSubComponent_createMonitoring(UA_PUBSUB_COMPONENT_DATASETREADER,
                                           UA_PUBSUB_MONITORING_MESSAGE_RECEIVE_TIMEOUT)
    \/ /\ msgRcvTimeoutTimerCallback # "NULL"
       /\ idCounter = 0
       /\ UA_PubSubComponent_startMonitoring(UA_PUBSUB_COMPONENT_DATASETREADER,
                                             UA_PUBSUB_MONITORING_MESSAGE_RECEIVE_TIMEOUT,
                                             "Good")
    \/ \E id \in 1 .. MaxTimers : monitoringReceiveTimeoutOnce_callback(id)
    \/ monitoringReceiveTimeoutOnce_return

SpecLock == Init /\ [][NextLock]_vars

\* ---- the timer of a DataSetReader that is removed
\* In SpecRace the monitoring variables are the fields of the DataSetReader of
\* the graph: createMonitoring is called while there is one, and no reader is
\* added after that. The reader has been removed, and its memory freed, when
\* the callback is recorded and the graph has no reader.
ReaderRemoved ==
    /\ msgRcvTimeoutTimerCallback # "NULL"
    /\ dataSetReaders = {}

\* monitoringReceiveTimeoutOnce whose data is a removed reader: the timer
\* callbackId expires, or the trampoline is inside the callback and goes on.
\* It reads the callback and the handle out of freed memory: the callback is
\* called or not, the handle is any value timerId, and the timer under that
\* handle, if there is one, is removed.
monitoringReceiveTimeoutOnce_removedReader(callbackId, called, timerId) ==
    /\ ReaderRemoved
    /\ \/ trampoline = callbackId
       \/ /\ trampoline = 0
          /\ \E t \in timers : t.id = callbackId
    /\ timers' = removeCyclicCallback(timers, timerId)
    /\ msgRcvTimeoutTimerId' = 0
    /\ trampoline' = 0
    /\ arming' = IF called /\ trampoline = 0 /\ arming.active /\ arming.fired < 2
                 THEN [arming EXCEPT !.fired = @ + 1] ELSE arming
    /\ ret' = [op |-> "monitoringReceiveTimeoutOnce", status |-> "Good"]
    /\ UNCHANGED <<sessions, reserveVars, transportLayers, connVars, writerVars,
                   readerVars, pdsVars, sdsVars, topicVars, lockVars,
                   uniqueIdCount,
                   msgRcvTimeoutTimerCallback, messageReceiveTimeout, idCounter>>

\* A connection with a reader group and a reader, connected to a
\* StandaloneSubscribedDataSet or not; the timer of the reader is started
\* while the reader is there; the connection or the data set is removed, or
\* the manager deleted, before or while the timer expires.
NextRace ==
    \/ UA_Server_addPubSubConnection("c", ProfileUdpUadp, TRUE)
    \/ UA_Server_addStandaloneSubscribedDataSet("sds")
    \/ \E c \in NodeIds : UA_Server_addReaderGroup(c)
    \/ \E r \in NodeIds, sd \in NodeIds \cup {UA_NODEID_NULL} :
            /\ dataSetReaders = {}
            /\ msgRcvTimeoutTimerCallback = "NULL"
            /\ UA_Server_addDataSetReader(r, sd)
    \/ /\ dataSetReaders # {}
       /\ UA_PubSubComponent_createMonitoring(UA_PUBSUB_COMPONENT_DATASETREADER,
                                              UA_PUBSUB_MONITORING_MESSAGE_RECEIVE_TIMEOUT)
    \/ /\ msgRcvTimeoutTimerCallback # "NULL"
       /\ dataSetReaders # {}
       /\ UA_PubSubComponent_startMonitoring(UA_PUBSUB_COMPONENT_DATASETREADER,
                                             UA_PUBSUB_MONITORING_MESSAGE_RECEIVE_TIMEOUT,
                                             "Good")
    \/ \E c \in NodeIds : UA_Server_removePubSubConnection(c)
    \/ \E sd \in NodeIds : UA_Server_removeStandaloneSubscribedDataSet(sd)
    \/ UA_PubSubManager_delete
    \/ \E id \in 1 .. MaxTimers :
            /\ ~ ReaderRemoved
            /\ monitoringReceiveTimeoutOnce_callback(id)
    \/ /\ ~ ReaderRemoved
       /\ monitoringReceiveTimeoutOnce_return
    \/ \E id \in 1 .. MaxTimers, called \in BOOLEAN, timerId \in 0 .. MaxTimers :
            monitoringReceiveTimeoutOnce_removedReader(id, called, timerId)

SpecRace == Init /\ [][NextRace]_vars

\* ---- removePubSubConnection, call by call
\* The thread t is inside removePubSubConnection; pc[t].at is the statement
\* it is at, pc[t].group the group of the current pass of a loop, and
\* pc[t].todo the groups LIST_FOREACH_SAFE has still to visit.

\* UA_PubSubConnection_findConnectionbyId and the return of BADNOTFOUND
removePubSubConnection_findConnectionbyId(t, connection) ==
    /\ pc[t] = Idle
    /\ IF IndexOfId(connections, connection, 1) = 0
       THEN /\ ret' = [op |-> "removePubSubConnection", status |-> "BadNotFound"]
            /\ UNCHANGED pc
       ELSE /\ pc' = [pc EXCEPT ![t] =
                        [op |-> "removePubSubConnection", arg |-> connection,
                         at |-> "writerGroups", group |-> UA_NODEID_NULL,
                         todo |-> {w.identifier : w \in WriterGroupsOf(connection)}]]
            /\ ret' = NoResult
    /\ UNCHANGED <<unlockedVars, serviceMutex, connVars, writerVars, readerVars,
                   pdsVars, sdsVars, uniqueIdCount>>

\* a pass of the loop over c->writerGroups that goes on without the call of
\* UA_WriterGroup_setPubSubState
removePubSubConnection_WriterGroup_setPubSubState_Skipped(t, writerGroup) ==
    /\ pc[t].op = "removePubSubConnection"
    /\ pc[t].at = "writerGroups"
    /\ writerGroup \in pc[t].todo
    /\ pc' = [pc EXCEPT ![t].at = "unfreezeWriterGroupConfiguration",
                        ![t].group = writerGroup,
                        ![t].todo = @ \ {writerGroup}]
    /\ ret' = [op |-> "UA_WriterGroup_setPubSubState", status |-> "Good",
               state |-> UA_PUBSUBSTATE_DISABLED, cause |-> "BadShutdown"]
    /\ UNCHANGED <<unlockedVars, serviceMutex, connVars, writerVars, readerVars,
                   pdsVars, sdsVars, uniqueIdCount>>

\* a pass of the loop over c->writerGroups begins:
\* UA_WriterGroup_setPubSubState(DISABLED, BADSHUTDOWN)
removePubSubConnection_WriterGroup_setPubSubState(t, writerGroup) ==
    /\ pc[t].op = "removePubSubConnection"
    /\ pc[t].at = "writerGroups"
    /\ writerGroup \in pc[t].todo
    /\ SetGraph(UA_WriterGroup_setPubSubState(Graph, writerGroup,
                                              UA_PUBSUBSTATE_DISABLED))
    /\ pc' = [pc EXCEPT ![t].at = "unfreezeWriterGroupConfiguration",
                        ![t].group = writerGroup,
                        ![t].todo = @ \ {writerGroup}]
    /\ ret' = [op |-> "UA_WriterGroup_setPubSubState", status |-> "Good",
               state |-> UA_PUBSUBSTATE_DISABLED, cause |-> "BadShutdown"]
    /\ UNCHANGED <<unlockedVars, serviceMutex, uniqueIdCount>>

\* UA_Server_unfreezeWriterGroupConfiguration of the pass
removePubSubConnection_unfreezeWriterGroupConfiguration(t) ==
    /\ pc[t].op = "removePubSubConnection"
    /\ pc[t].at = "unfreezeWriterGroupConfiguration"
    /\ SetGraph(UA_Server_unfreezeWriterGroupConfiguration(Graph, pc[t].group))
    /\ pc' = [pc EXCEPT ![t].at = "removeWriterGroup"]
    /\ ret' = [op |-> "unfreezeWriterGroupConfiguration", status |-> "Good"]
    /\ UNCHANGED <<unlockedVars, serviceMutex, uniqueIdCount>>

\* removeWriterGroup of the pass; its status is dropped
removePubSubConnection_removeWriterGroup(t) ==
    /\ pc[t].op = "removePubSubConnection"
    /\ pc[t].at = "removeWriterGroup"
    /\ LET r == removeWriterGroup(Graph, pc[t].group)
       IN /\ SetGraph(r.g)
          /\ ret' = [op |-> "removeWriterGroup", status |-> r.status]
    /\ pc' = [pc EXCEPT ![t].at = "writerGroups", ![t].group = UA_NODEID_NULL]
    /\ UNCHANGED <<unlockedVars, serviceMutex, uniqueIdCount>>

\* the loop over c->writerGroups is over and the loop over c->readerGroups
\* begins
removePubSubConnection_readerGroups(t) ==
    /\ pc[t].op = "removePubSubConnection"
    /\ pc[t].at = "writerGroups"
    /\ pc[t].todo = {}
    /\ pc' = [pc EXCEPT ![t].at = "readerGroups",
                        ![t].todo = {r.identifier : r \in ReaderGroupsOf(pc[t].arg)}]
    /\ ret' = NoResult
    /\ UNCHANGED <<unlockedVars, serviceMutex, connVars, writerVars, readerVars,
                   pdsVars, sdsVars, uniqueIdCount>>

\* a pass of the loop over c->readerGroups begins:
\* UA_ReaderGroup_setPubSubState(DISABLED, BADSHUTDOWN)
removePubSubConnection_ReaderGroup_setPubSubState(t, readerGroup) ==
    /\ pc[t].op = "removePubSubConnection"
    /\ pc[t].at = "readerGroups"
    /\ readerGroup \in pc[t].todo
    /\ SetGraph(UA_ReaderGroup_setPubSubState(Graph, readerGroup,
                                              UA_PUBSUBSTATE_DISABLED))
    /\ pc' = [pc EXCEPT ![t].at = "unfreezeReaderGroupConfiguration",
                        ![t].group = readerGroup,
                        ![t].todo = @ \ {readerGroup}]
    /\ ret' = [op |-> "UA_ReaderGroup_setPubSubState", status |-> "Good",
               state |-> UA_PUBSUBSTATE_DISABLED, cause |-> "BadShutdown"]
    /\ UNCHANGED <<unlockedVars, serviceMutex, uniqueIdCount>>

\* UA_Server_unfreezeReaderGroupConfiguration of the pass
removePubSubConnection_unfreezeReaderGroupConfiguration(t) ==
    /\ pc[t].op = "removePubSubConnection"
    /\ pc[t].at = "unfreezeReaderGroupConfiguration"
    /\ SetGraph(UA_Server_unfreezeReaderGroupConfiguration(Graph, pc[t].group))
    /\ pc' = [pc EXCEPT ![t].at = "removeReaderGroup"]
    /\ ret' = [op |-> "unfreezeReaderGroupConfiguration", status |-> "Good"]
    /\ UNCHANGED <<unlockedVars, serviceMutex, uniqueIdCount>>

\* removeReaderGroup of the pass; its status is dropped
removePubSubConnection_removeReaderGroup(t) ==
    /\ pc[t].op = "removePubSubConnection"
    /\ pc[t].at = "removeReaderGroup"
    /\ LET r == removeReaderGroup(Graph, pc[t].group)
       IN /\ SetGraph(r.g)
          /\ ret' = [op |-> "removeReaderGroup", status |-> r.status]
    /\ pc' = [pc EXCEPT ![t].at = "readerGroups", ![t].group = UA_NODEID_NULL]
    /\ UNCHANGED <<unlockedVars, serviceMutex, uniqueIdCount>>

\* both loops are over: TAILQ_REMOVE, connectionsSize--, the connection is
\* cleared and freed
removePubSubConnection_TAILQ_REMOVE(t) ==
    /\ pc[t].op = "removePubSubConnection"
    /\ pc[t].at = "readerGroups"
    /\ pc[t].todo = {}
    /\ connections' = RemoveAt(connections, IndexOfId(connections, pc[t].arg, 1))
    /\ connectionsSize' = connectionsSize - 1
    /\ pc' = [pc EXCEPT ![t] = Idle]
    /\ ret' = [op |-> "removePubSubConnection", status |-> "Good"]
    /\ UNCHANGED <<unlockedVars, serviceMutex, writerVars, readerVars, pdsVars,
                   sdsVars, uniqueIdCount>>

\* One thread builds connections with groups, frozen or operational, and
\* removes connections call by call.
NextCascade ==
    \/ /\ pc["t1"] = Idle
       /\ UA_Server_addPubSubConnection("c", ProfileUdpUadp, TRUE)
    \/ \E c \in NodeIds : pc["t1"] = Idle /\ UA_Server_addWriterGroup(c, 0)
    \/ \E c \in NodeIds : pc["t1"] = Idle /\ UA_Server_addReaderGroup(c)
    \/ \E w \in NodeIds :
            pc["t1"] = Idle /\ UA_Server_freezeWriterGroupConfiguration(w)
    \/ \E r \in NodeIds :
            pc["t1"] = Idle /\ UA_Server_freezeReaderGroupConfiguration(r)
    \/ \E w \in NodeIds : pc["t1"] = Idle /\ UA_Server_setWriterGroupOperational(w)
    \/ \E r \in NodeIds : pc["t1"] = Idle /\ UA_Server_setReaderGroupOperational(r)
    \/ \E c \in NodeIds : removePubSubConnection_findConnectionbyId("t1", c)
    \/ \E w \in NodeIds : removePubSubConnection_WriterGroup_setPubSubState("t1", w)
    \/ removePubSubConnection_unfreezeWriterGroupConfiguration("t1")
    \/ removePubSubConnection_removeWriterGroup("t1")
    \/ removePubSubConnection_readerGroups("t1")
    \/ \E r \in NodeIds : removePubSubConnection_ReaderGroup_setPubSubState("t1", r)
    \/ removePubSubConnection_unfreezeReaderGroupConfiguration("t1")
    \/ removePubSubConnection_removeReaderGroup("t1")
    \/ removePubSubConnection_TAILQ_REMOVE("t1")

SpecCascade == Init /\ [][NextCascade]_vars

\* ---- UA_PubSubManager_delete, loop by loop
\* The thread t is inside UA_PubSubManager_delete and pc[t].at is the loop it
\* is about to run; ret.loop is the loop it has run last.

\* the loop over the connections that stops behind the first one
UA_PubSubManager_delete_connections_FirstOnly(t) ==
    /\ pc[t] = Idle
    /\ SetGraph(DeleteConnections(Graph, IF connections = <<>> THEN <<>>
                                         ELSE <<connections[1].identifier>>))
    /\ pc' = [pc EXCEPT ![t] = [op |-> "UA_PubSubManager_delete",
                                at |-> "publishedDataSets"]]
    /\ ret' = [op |-> "UA_PubSubManager_delete", loop |-> "connections",
               status |-> "Good"]
    /\ UNCHANGED <<unlockedVars, serviceMutex, uniqueIdCount>>

\* TAILQ_FOREACH_SAFE over the connections: removePubSubConnection of each
UA_PubSubManager_delete_connections(t) ==
    /\ pc[t] = Idle
    /\ SetGraph(DeleteConnections(Graph, IdentifiersOf(connections)))
    /\ pc' = [pc EXCEPT ![t] = [op |-> "UA_PubSubManager_delete",
                                at |-> "publishedDataSets"]]
    /\ ret' = [op |-> "UA_PubSubManager_delete", loop |-> "connections",
               status |-> "Good"]
    /\ UNCHANGED <<unlockedVars, serviceMutex, uniqueIdCount>>

\* TAILQ_FOREACH_SAFE over the PublishedDataSets: removePublishedDataSet of
\* each, its status dropped
UA_PubSubManager_delete_publishedDataSets(t) ==
    /\ pc[t].op = "UA_PubSubManager_delete"
    /\ pc[t].at = "publishedDataSets"
    /\ SetGraph(DeletePublishedDataSets(Graph, IdentifiersOf(publishedDataSets)))
    /\ pc' = [pc EXCEPT ![t].at = "topicAssign"]
    /\ ret' = [op |-> "UA_PubSubManager_delete", loop |-> "publishedDataSets",
               status |-> "Good"]
    /\ UNCHANGED <<unlockedVars, serviceMutex, uniqueIdCount>>

\* TAILQ_FOREACH_SAFE over the TopicAssigns
UA_PubSubManager_delete_topicAssign(t) ==
    /\ pc[t].op = "UA_PubSubManager_delete"
    /\ pc[t].at = "topicAssign"
    /\ topicAssign' = <<>>
    /\ topicAssignSize' = topicAssignSize - Len(topicAssign)
    /\ pc' = [pc EXCEPT ![t].at = "reserveIds"]
    /\ ret' = [op |-> "UA_PubSubManager_delete", loop |-> "topicAssign",
               status |-> "Good"]
    /\ UNCHANGED <<sessions, reserveVars, transportLayers, monVars, serviceMutex,
                   connVars, writerVars, readerVars, pdsVars, sdsVars, uniqueIdCount>>

\* LIST_FOREACH_SAFE over the ReserveIds
UA_PubSubManager_delete_reserveIds(t) ==
    /\ pc[t].op = "UA_PubSubManager_delete"
    /\ pc[t].at = "reserveIds"
    /\ reserveIds' = EmptyBag
    /\ reserveIdsSize' = reserveIdsSize - BagCardinality(reserveIds)
    /\ pc' = [pc EXCEPT ![t].at = "transportLayers"]
    /\ ret' = [op |-> "UA_PubSubManager_delete", loop |-> "reserveIds",
               status |-> "Good"]
    /\ UNCHANGED <<sessions, next_id_writerGroup, next_id_writer, transportLayers,
                   topicVars, monVars, serviceMutex, connVars, writerVars,
                   readerVars, pdsVars, sdsVars, uniqueIdCount>>

\* the list of the transport layers is freed
UA_PubSubManager_delete_transportLayers(t) ==
    /\ pc[t].op = "UA_PubSubManager_delete"
    /\ pc[t].at = "transportLayers"
    /\ transportLayers' = {}
    /\ pc' = [pc EXCEPT ![t].at = "subscribedDataSets"]
    /\ ret' = [op |-> "UA_PubSubManager_delete", loop |-> "transportLayers",
               status |-> "Good"]
    /\ UNCHANGED <<sessions, reserveVars, topicVars, monVars, serviceMutex,
                   connVars, writerVars, readerVars, pdsVars, sdsVars, uniqueIdCount>>

\* TAILQ_FOREACH_SAFE over the StandaloneSubscribedDataSets, and the return
UA_PubSubManager_delete_subscribedDataSets(t) ==
    /\ pc[t].op = "UA_PubSubManager_delete"
    /\ pc[t].at = "subscribedDataSets"
    /\ SetGraph(DeleteSubscribedDataSets(Graph, IdentifiersOf(subscribedDataSets)))
    /\ pc' = [pc EXCEPT ![t] = Idle]
    /\ ret' = [op |-> "UA_PubSubManager_delete", loop |-> "subscribedDataSets",
               status |-> "Good"]
    /\ UNCHANGED <<unlockedVars, serviceMutex, uniqueIdCount>>

\* One thread fills the manager and deletes it loop by loop.
NextTeardown ==
    \/ /\ pc["t1"] = Idle
       /\ UA_Server_addPubSubConnection("c", ProfileUdpUadp, TRUE)
    \/ /\ pc["t1"] = Idle
       /\ UA_Server_addPublishedDataSet("pds", "PUBLISHEDITEMS")
    \/ /\ pc["t1"] = Idle
       /\ UA_Server_addStandaloneSubscribedDataSet("sds")
    \/ \E c \in NodeIds : pc["t1"] = Idle /\ UA_Server_addWriterGroup(c, 0)
    \/ \E w \in NodeIds, p \in NodeIds \cup {UA_NODEID_NULL} :
            pc["t1"] = Idle /\ UA_Server_addDataSetWriter(w, p, 0)
    \/ \E c \in NodeIds : pc["t1"] = Idle /\ UA_Server_addReaderGroup(c)
    \/ \E r \in NodeIds, sd \in NodeIds \cup {UA_NODEID_NULL} :
            pc["t1"] = Idle /\ UA_Server_addDataSetReader(r, sd)
    \/ \E r \in NodeIds :
            pc["t1"] = Idle /\ UA_PubSubManager_addPubSubTopicAssign(r, "topic")
    \/ /\ pc["t1"] = Idle
       /\ UA_PubSubManager_reserveIds(AdminSession, 1, 0, ProfileUdpUadp)
    \/ UA_PubSubManager_delete_connections("t1")
    \/ UA_PubSubManager_delete_publishedDataSets("t1")
    \/ UA_PubSubManager_delete_topicAssign("t1")
    \/ UA_PubSubManager_delete_reserveIds("t1")
    \/ UA_PubSubManager_delete_transportLayers("t1")
    \/ UA_PubSubManager_delete_subscribedDataSets("t1")

SpecTeardown == Init /\ [][NextTeardown]_vars

\* sessions that open, reserve and close, next to the live entities the free
\* test looks at
NextLeak ==
    \/ \E s \in ClientSessions : createSession(s)
    \/ \E s \in ClientSessions : removeSession(s)
    \/ \E s \in Callers, nwg \in 0 .. 1, ndsw \in 0 .. 1 :
            /\ reserveIdsSize < MaxLockIds
            /\ UA_PubSubManager_reserveIds(s, nwg, ndsw, ProfileUdpUadp)
    \/ UA_PubSubManager_freeIds
    \/ /\ uniqueIdCount < MaxLockIds
       /\ UA_Server_addPubSubConnection("c", ProfileUdpUadp, TRUE)
    \/ \E c \in NodeIds, id \in ReservedRange :
            /\ uniqueIdCount < MaxLockIds
            /\ UA_Server_addWriterGroup(c, id)
    \/ \E w \in NodeIds : UA_Server_removeWriterGroup(w)

SpecLeak == Init /\ [][NextLeak]_vars

\* published data sets added while the clock runs
NextVersion ==
    \/ \E name \in {"a", "b", ""}, type \in PublishedDataSetTypes, now \in NowReadings :
            UA_Server_addPublishedDataSet_dataSetMetaData(name, type, now)
    \/ \E p \in NodeIds : UA_Server_removePublishedDataSet(p)

SpecVersion == Init /\ [][NextVersion]_vars

\* ---- UA_PubSubManager_delete under the service mutex
\* UA_PubSubManager_delete is entered by a thread that holds the service mutex
\* (UA_LOCK_ASSERT); the loops over the connections, the PublishedDataSets,
\* the TopicAssigns, the ReserveIds and the transport layers run with the
\* internal removals, which take no lock
UA_PubSubManager_delete_UA_LOCK_ASSERT(t) ==
    /\ pc[t] = Idle
    /\ serviceMutex = "unlocked"
    /\ serviceMutex' = t
    /\ SetGraph(DeletePublishedDataSets(
                    DeleteConnections(Graph, IdentifiersOf(connections)),
                    IdentifiersOf(publishedDataSets)))
    /\ topicAssign' = <<>>
    /\ topicAssignSize' = topicAssignSize - Len(topicAssign)
    /\ reserveIds' = EmptyBag
    /\ reserveIdsSize' = reserveIdsSize - BagCardinality(reserveIds)
    /\ transportLayers' = {}
    /\ pc' = [pc EXCEPT ![t] = [op |-> "UA_PubSubManager_delete",
                                at |-> "subscribedDataSets"]]
    /\ ret' = [op |-> "UA_PubSubManager_delete", loop |-> "transportLayers",
               status |-> "Good"]
    /\ UNCHANGED <<sessions, next_id_writerGroup, next_id_writer, monVars,
                   uniqueIdCount>>

\* the loop over the StandaloneSubscribedDataSets calls
\* UA_Server_removeStandaloneSubscribedDataSet, whose first statement is
\* UA_LOCK(&server->serviceMutex), on the thread that holds the mutex. What
\* UA_LOCK does then is not in the source of the manager: the mutex is
\* recursive and is taken once more, or it is not and the thread waits for
\* itself.
UA_PubSubManager_delete_removeStandaloneSubscribedDataSet_LOCK(t, recursive) ==
    /\ pc[t].op = "UA_PubSubManager_delete"
    /\ pc[t].at = "subscribedDataSets"
    /\ subscribedDataSets # <<>>
    /\ pc' = [pc EXCEPT ![t] = IF recursive
                               THEN [op |-> "UA_PubSubManager_delete",
                                     at |-> "removeStandaloneSubscribedDataSet"]
                               ELSE [op |-> "UA_LOCK",
                                     at |-> "UA_PubSubManager_delete"]]
    /\ ret' = [op |-> "UA_LOCK", status |-> "Good"]
    /\ UNCHANGED <<unlockedVars, serviceMutex, connVars, writerVars, readerVars,
                   pdsVars, sdsVars, uniqueIdCount>>

\* removeStandaloneSubscribedDataSet of the first SubscribedDataSet and the
\* UA_UNLOCK of the wrapper, which gives back the second hold of the mutex
UA_PubSubManager_delete_removeStandaloneSubscribedDataSet_UNLOCK(t) ==
    /\ pc[t].op = "UA_PubSubManager_delete"
    /\ pc[t].at = "removeStandaloneSubscribedDataSet"
    /\ LET r == removeStandaloneSubscribedDataSet(Graph, subscribedDataSets[1].identifier)
       IN /\ SetGraph(r.g)
          /\ ret' = [op |-> "removeStandaloneSubscribedDataSet", status |-> r.status]
    /\ pc' = [pc EXCEPT ![t].at = "subscribedDataSets"]
    /\ UNCHANGED <<unlockedVars, serviceMutex, uniqueIdCount>>

\* the loop over the StandaloneSubscribedDataSets is over, UA_PubSubManager_delete
\* returns and its caller gives the mutex back
UA_PubSubManager_delete_return(t) ==
    /\ pc[t].op = "UA_PubSubManager_delete"
    /\ pc[t].at = "subscribedDataSets"
    /\ subscribedDataSets = <<>>
    /\ serviceMutex' = "unlocked"
    /\ pc' = [pc EXCEPT ![t] = Idle]
    /\ ret' = [op |-> "UA_PubSubManager_delete", loop |-> "subscribedDataSets",
               status |-> "Good"]
    /\ UNCHANGED <<unlockedVars, connVars, writerVars, readerVars, pdsVars, sdsVars,
                   uniqueIdCount>>

\* no thread is inside a removal or inside UA_PubSubManager_delete
NoOperationRuns == \A t \in Threads : pc[t] = Idle

\* Two threads fill the manager, call the removals that lock, and delete the
\* manager.
NextRelock ==
    \/ /\ NoOperationRuns
       /\ uniqueIdCount < MaxIdsNodes
       /\ UA_Server_addPubSubConnection("c", ProfileUdpUadp, TRUE)
    \/ /\ NoOperationRuns
       /\ uniqueIdCount < MaxIdsNodes
       /\ UA_Server_addPublishedDataSet("pds", "PUBLISHEDITEMS")
    \/ /\ NoOperationRuns
       /\ uniqueIdCount < MaxIdsNodes
       /\ UA_Server_addStandaloneSubscribedDataSet("sds")
    \/ /\ NoOperationRuns
       /\ UA_PubSubManager_reserveIds(AdminSession, 1, 0, ProfileUdpUadp)
    \/ \E t \in Threads, id \in 1 .. MaxIdsNodes :
           UA_Server_removePubSubConnection_LOCK(t, id)
    \/ \E t \in Threads : UA_Server_removePubSubConnection_UNLOCK(t)
    \/ \E t \in Threads, id \in 1 .. MaxIdsNodes :
           UA_Server_removePublishedDataSet_LOCK(t, id)
    \/ \E t \in Threads : UA_Server_removePublishedDataSet_UNLOCK(t)
    \/ \E t \in Threads, id \in 1 .. MaxIdsNodes :
           UA_Server_removeStandaloneSubscribedDataSet_LOCK(t, id)
    \/ \E t \in Threads : UA_Server_removeStandaloneSubscribedDataSet_UNLOCK(t)
    \/ \E t \in Threads : UA_PubSubManager_delete_UA_LOCK_ASSERT(t)
    \/ \E t \in Threads, recursive \in BOOLEAN :
           UA_PubSubManager_delete_removeStandaloneSubscribedDataSet_LOCK(t, recursive)
    \/ \E t \in Threads :
           UA_PubSubManager_delete_removeStandaloneSubscribedDataSet_UNLOCK(t)
    \/ \E t \in Threads : UA_PubSubManager_delete_return(t)

SpecRelock == Init /\ [][NextRelock]_vars

\* every call that writes a size counter of the manager: the adds that go
\* through and the adds that fail, the removals, reserveIds and freeIds with
\* sessions that come and go, and the deletion of the manager
NextCounters ==
    \/ \E uri \in {ProfileUdpUadp, ProfileEthUadp}, channelCreated \in BOOLEAN :
            /\ uniqueIdCount < MaxIdsNodes
            /\ UA_Server_addPubSubConnection("c", uri, channelCreated)
    \/ \E c \in NodeIds : UA_Server_removePubSubConnection(c)
    \/ \E name \in {"pds", ""} :
            /\ uniqueIdCount < MaxIdsNodes
            /\ UA_Server_addPublishedDataSet(name, "PUBLISHEDITEMS")
    \/ \E p \in NodeIds : UA_Server_removePublishedDataSet(p)
    \/ /\ uniqueIdCount < MaxIdsNodes
       /\ UA_Server_addStandaloneSubscribedDataSet("sds")
    \/ \E sd \in NodeIds : UA_Server_removeStandaloneSubscribedDataSet(sd)
    \/ \E c \in NodeIds :
            /\ uniqueIdCount < MaxIdsNodes
            /\ UA_Server_addReaderGroup(c)
    \/ \E r \in NodeIds : UA_PubSubManager_addPubSubTopicAssign(r, "topic")
    \/ \E s \in ClientSessions : createSession(s)
    \/ \E s \in ClientSessions : removeSession(s)
    \/ \E s \in Callers, uri \in {ProfileUdpUadp, ProfileEthUadp} :
            /\ uri = ProfileUdpUadp => reserveIdsSize = 0
            /\ UA_PubSubManager_reserveIds(s, 1, 1, uri)
    \/ UA_PubSubManager_freeIds
    \/ UA_PubSubManager_delete

SpecCounters == Init /\ [][NextCounters]_vars

\* reservations of both kinds under two transport profiles, by a session that
\* opens and closes and by the admin session, next to a live writer group
NextScope ==
    \/ \E s \in ClientSessions : createSession(s)
    \/ \E s \in ClientSessions : removeSession(s)
    \/ \E s \in sessions : UA_PubSubManager_reserveIds(s, 1, 1, ProfileUdpUadp)
    \/ \E nwg \in 0 .. 1, uri \in {ProfileUdpUadp, ProfileMqttUadp} :
            UA_PubSubManager_reserveIds(AdminSession, nwg, 1 - nwg, uri)
    \/ /\ uniqueIdCount < MaxLockIds
       /\ UA_Server_addPubSubConnection("c", ProfileUdpUadp, TRUE)
    \/ \E c \in NodeIds, id \in {UA_RESERVEID_FIRST_ID, UA_UINT16_MAX} :
            /\ uniqueIdCount < MaxLockIds
            /\ UA_Server_addWriterGroup(c, id)

SpecScope == Init /\ [][NextScope]_vars

\* connections are added for transport profiles with and without a transport
\* layer, before and after the manager is deleted
NextLayers ==
    \/ \E uri \in {ProfileUdpUadp, ProfileMqttUadp, ProfileEthUadp},
          channelCreated \in BOOLEAN :
            UA_Server_addPubSubConnection("c", uri, channelCreated)
    \/ \E c \in NodeIds : UA_Server_removePubSubConnection(c)
    \/ \E c \in NodeIds : UA_Server_addWriterGroup(c, 0)
    \/ UA_PubSubManager_delete

SpecLayers == Init /\ [][NextLayers]_vars

\* -------------------------------------------------------------- properties
\* a live entity of the kind reserveIdType carries id below a connection, out
\* of conns, whose transportProfileUri is uri
LiveEntityWithId(conns, wgs, dsws, uri, reserveIdType, id) ==
    \E ci \in 1 .. Len(conns) :
        /\ conns[ci].transportProfileUri = uri
        /\ \E w \in wgs :
            /\ w.linkedConnection = conns[ci].identifier
            /\ IF reserveIdType = UA_WRITER_GROUP
               THEN w.writerGroupId = id
               ELSE \E d \in dsws : /\ d.linkedWriterGroup = w.identifier
                                    /\ d.dataSetWriterId = id

\* the session that owns the entry e is the admin session or an open one
OwnerAlive(e) == e.sessionId = AdminSession \/ e.sessionId \in sessions

\* a cursor as the probing loop reads it, and the k-th id after the id c of the
\* range, the successor of the last id being the first one
CursorId(next_id) ==
    IF next_id < UA_RESERVEID_FIRST_ID THEN UA_RESERVEID_FIRST_ID ELSE next_id
IdAfter(c, k) ==
    UA_RESERVEID_FIRST_ID + ((c - UA_RESERVEID_FIRST_ID + k) % NumberOfIds)

C2_NoDuplicateReservation ==
    /\ \A e \in BagToSet(reserveIds) : CopiesIn(e, reserveIds) = 1
    /\ \A e1, e2 \in BagToSet(reserveIds) :
          (/\ e1.transportProfileUri = e2.transportProfileUri
           /\ e1.reserveIdType = e2.reserveIdType
           /\ e1.id = e2.id) => e1 = e2

\* two sessions hold writer group ids of the same profile at the same time
C2_Witness ==
    \E e1, e2 \in BagToSet(reserveIds) :
        /\ e1.sessionId # e2.sessionId
        /\ e1.transportProfileUri = e2.transportProfileUri
        /\ e1.reserveIdType = UA_WRITER_GROUP
        /\ e2.reserveIdType = UA_WRITER_GROUP

\* C3: every element of the two arrays of a reserveIds call that returned Good
\* lies in the id range; 0 is never handed out, also when the range is full.
C3_GrantedIdsInRange ==
    (ret.op = "reserveIds" /\ ret.status = "Good") =>
        /\ \A i \in 1 .. Len(ret.writerGroupIds) :
                ret.writerGroupIds[i] \in ReservedRange
        /\ \A i \in 1 .. Len(ret.dataSetWriterIds) :
                ret.dataSetWriterIds[i] \in ReservedRange

\* C4: a call of freeIds leaves exactly the entries whose session is the admin
\* session or an open session, removes every other entry, and decreases
\* reserveIdsSize by the number of entries it removed.
C4_FreeIdsKeepsLiveEntries ==
    [][UA_PubSubManager_freeIds =>
          /\ BagToSet(reserveIds') \subseteq BagToSet(reserveIds)
          /\ \A e \in BagToSet(reserveIds) :
                CopiesIn(e, reserveIds') =
                    IF OwnerAlive(e) THEN CopiesIn(e, reserveIds) ELSE 0
          /\ reserveIdsSize' = reserveIdsSize - (BagCardinality(reserveIds)
                                                 - BagCardinality(reserveIds'))]_vars

\* freeIds removed the entries of a closed session and kept one of the admin
\* session
C4_Witness ==
    /\ ret.op = "freeIds"
    /\ ret.freed # EmptyBag
    /\ \E e \in BagToSet(reserveIds) : e.sessionId = AdminSession

\* C5: in a reserveIds call the sweep runs before an id is probed: when the
\* call returns, no entry of a closed session that is not the admin session is
\* left, and an id that only a closed session held counts as free for the call,
\* so that such an id at the writer group cursor is the first id granted.
C5_SweepBeforeProbing ==
    [][\A s \in Callers, nwg \in 0 .. MaxRequest, ndsw \in 0 .. 1 :
          (/\ ret'.op = "reserveIds"
           /\ Len(ret'.writerGroupIds) = nwg
           /\ Len(ret'.dataSetWriterIds) = ndsw
           /\ UA_PubSubManager_reserveIds(s, nwg, ndsw, ProfileUdpUadp)) =>
              /\ \A e \in BagToSet(reserveIds') : OwnerAlive(e)
              /\ (/\ nwg > 0
                  /\ \E e \in BagToSet(reserveIds) :
                        /\ ~ OwnerAlive(e)
                        /\ e.transportProfileUri = ProfileUdpUadp
                        /\ e.reserveIdType = UA_WRITER_GROUP
                        /\ e.id = CursorId(next_id_writerGroup)
                  /\ ~ \E e \in BagToSet(reserveIds) :
                        /\ OwnerAlive(e)
                        /\ e.transportProfileUri = ProfileUdpUadp
                        /\ e.reserveIdType = UA_WRITER_GROUP
                        /\ e.id = CursorId(next_id_writerGroup)
                  /\ ~ LiveEntityWithId(connections, writerGroups, dataSetWriters,
                                        ProfileUdpUadp, UA_WRITER_GROUP,
                                        CursorId(next_id_writerGroup)))
                 => ret'.writerGroupIds[1] = CursorId(next_id_writerGroup)]_vars

\* a reserveIds call freed a writer group id of a closed session and granted
\* that very id
C5_Witness ==
    /\ ret.op = "reserveIds"
    /\ \E e \in BagToSet(ret.freed) :
          /\ e.reserveIdType = UA_WRITER_GROUP
          /\ \E i \in 1 .. Len(ret.writerGroupIds) : ret.writerGroupIds[i] = e.id

\* C6: a reserveIds call for n writer group ids in a state with no reservation
\* and no live writer group of the profile returns c, c+1, ..., c+n-1, where c
\* is the writer group cursor at the start of the call and the successor of
\* the last id of the range is the first one.
C6_IdsFollowCursor ==
    [][\A s \in Callers, n \in 0 .. MaxRequest :
          (/\ reserveIds = EmptyBag
           /\ \A id \in ReservedRange :
                ~ LiveEntityWithId(connections, writerGroups, dataSetWriters,
                                   ProfileUdpUadp, UA_WRITER_GROUP, id)
           /\ UA_PubSubManager_reserveIds(s, n, 0, ProfileUdpUadp))
          => ret'.writerGroupIds =
                [i \in 1 .. n |-> IdAfter(CursorId(next_id_writerGroup), i - 1)]]_vars

\* C7: reserveIds with a transport profile uri that is none of the three
\* accepted ones returns BadInvalidArgument, adds no entry and moves neither
\* cursor; all it removes are entries of closed sessions other than the admin
\* session.
C7_InvalidUriOnlySweeps ==
    [][\A s \in Callers, nwg \in 0 .. MaxRequest, ndsw \in 0 .. 1 :
          (/\ ret'.op = "reserveIds"
           /\ UA_PubSubManager_reserveIds(s, nwg, ndsw, ProfileEthUadp)) =>
              /\ ret'.status = "BadInvalidArgument"
              /\ next_id_writerGroup' = next_id_writerGroup
              /\ next_id_writer' = next_id_writer
              /\ BagToSet(reserveIds') \subseteq BagToSet(reserveIds)
              /\ \A e \in BagToSet(reserveIds) :
                    /\ CopiesIn(e, reserveIds') <= CopiesIn(e, reserveIds)
                    /\ OwnerAlive(e) =>
                          CopiesIn(e, reserveIds') = CopiesIn(e, reserveIds)
              /\ reserveIdsSize' = BagCardinality(reserveIds')]_vars

\* a reserveIds call with an invalid uri was refused after its sweep had freed
\* an entry, with an entry of the admin session left in the list
C7_Witness ==
    /\ ret.op = "reserveIds"
    /\ ret.status = "BadInvalidArgument"
    /\ ret.freed # EmptyBag
    /\ reserveIds # EmptyBag

\* C8: when removePubSubConnection of the connection c returns Good, c is no
\* longer found and no WriterGroup, DataSetWriter, ReaderGroup or DataSetReader
\* that was below c is left, whatever the state and the frozen flag of the
\* groups were.
C8_RemoveConnectionCascades ==
    [][\A c \in NodeIds :
          (/\ ret'.op = "removePubSubConnection"
           /\ ret'.status = "Good"
           /\ UA_Server_removePubSubConnection(c)) =>
              /\ IndexOfId(connections', c, 1) = 0
              /\ ~ \E w \in writerGroups' : w.linkedConnection = c
              /\ ~ \E r \in readerGroups' : r.linkedConnection = c
              /\ \A w \in WriterGroupsOf(c) :
                    /\ ~ \E x \in writerGroups' : x.identifier = w.identifier
                    /\ ~ \E d \in dataSetWriters' :
                            d.linkedWriterGroup = w.identifier
              /\ \A r \in ReaderGroupsOf(c) :
                    /\ ~ \E x \in readerGroups' : x.identifier = r.identifier
                    /\ ~ \E d \in dataSetReaders' :
                            d.linkedReaderGroup = r.identifier]_vars

\* a connection with three objects below it, a frozen group and an
\* operational group among them, was removed and nothing of them is left
C8_Witness ==
    /\ ret.op = "removePubSubConnection"
    /\ ret.status = "Good"
    /\ ret.children >= 3
    /\ ret.frozen
    /\ ret.operational
    /\ writerGroups = {}
    /\ dataSetWriters = {}
    /\ readerGroups = {}
    /\ dataSetReaders = {}

\* C9: when removePublishedDataSet of the data set p returns Good, no
\* DataSetWriter is left whose connectedDataSet is p, also when the removal of
\* a writer fails because its writer group is frozen.
C9_NoWriterOfRemovedDataSet ==
    [][\A p \in NodeIds :
          (/\ ret'.op = "removePublishedDataSet"
           /\ ret'.status = "Good"
           /\ UA_Server_removePublishedDataSet(p)) =>
              ~ \E d \in dataSetWriters' : d.connectedDataSet = p]_vars

\* C10: when removeStandaloneSubscribedDataSet of the data set s returns Good,
\* s is no longer in the manager and no DataSetReader is left whose identifier
\* is the connectedReader s had.
C10_NoReaderOfRemovedDataSet ==
    [][\A s \in NodeIds :
          (/\ ret'.op = "removeStandaloneSubscribedDataSet"
           /\ ret'.status = "Good"
           /\ UA_Server_removeStandaloneSubscribedDataSet(s)) =>
              /\ IndexOfId(subscribedDataSets', s, 1) = 0
              /\ ~ \E r \in dataSetReaders' :
                    r.identifier =
                        subscribedDataSets[IndexOfId(subscribedDataSets, s, 1)]
                            .connectedReader]_vars

\* the PublishedDataSet named name, if there is one
PDSsNamed(pdss, name) ==
    {i \in 1 .. Len(pdss) : pdss[i].name = name}

\* C11: no two PublishedDataSets have equal names. addPublishedDataSet with the
\* name of a PublishedDataSet of the manager returns BadBrowseNameDuplicated and
\* adds nothing; once removePublishedDataSet has removed the data set, no data
\* set of that name is left and addPublishedDataSet accepts the name again.
C11_PublishedDataSetNamesUnique ==
    [][/\ \A i, j \in 1 .. Len(publishedDataSets') :
              publishedDataSets'[i].name = publishedDataSets'[j].name => i = j
       /\ \A name \in {"a", "b"} :
              (/\ ret'.op = "addPublishedDataSet"
               /\ UA_Server_addPublishedDataSet(name, "PUBLISHEDITEMS")) =>
                  IF PDSsNamed(publishedDataSets, name) # {}
                  THEN /\ ret'.status = "BadBrowseNameDuplicated"
                       /\ UNCHANGED <<pdsVars, uniqueIdCount>>
                  ELSE /\ ret'.status = "Good"
                       /\ PDSsNamed(publishedDataSets', name) # {}
       /\ \A p \in NodeIds :
              (/\ ret'.op = "removePublishedDataSet"
               /\ ret'.status = "Good"
               /\ UA_Server_removePublishedDataSet(p)) =>
                  PDSsNamed(publishedDataSets',
                            publishedDataSets[IndexOfId(publishedDataSets, p, 1)]
                                .name) = {}]_vars

\* addPublishedDataSet was refused for a duplicate name while the manager holds
\* two data sets, the one named "a" added after an earlier data set was removed
C11_Witness ==
    /\ ret.op = "addPublishedDataSet"
    /\ ret.status = "BadBrowseNameDuplicated"
    /\ Len(publishedDataSets) = 2
    /\ publishedDataSets[1].name = "b"
    /\ publishedDataSets[2].name = "a"
    /\ publishedDataSets[1].identifier > 1

\* C13: removePublishedDataSet returns BadNotFound when the identifier matches
\* no PublishedDataSet and BadConfigurationError when the data set is frozen;
\* in both cases the list of data sets, its size and the DataSetWriters are as
\* they were before the call.
C13_RefusedRemoveDataSetChangesNothing ==
    [][\A p \in NodeIds :
          (/\ ret'.op = "removePublishedDataSet"
           /\ UA_Server_removePublishedDataSet(p)) =>
              LET i == IndexOfId(publishedDataSets, p, 1)
              IN /\ i = 0 =>
                      /\ ret'.status = "BadNotFound"
                      /\ UNCHANGED <<pdsVars, writerVars>>
                 /\ (i # 0 /\ publishedDataSets[i].configurationFrozen) =>
                      /\ ret'.status = "BadConfigurationError"
                      /\ UNCHANGED <<pdsVars, writerVars>>]_vars

\* the removal of a frozen data set was refused, and a writer of a writer group
\* that is not frozen still refers to the data set
C13_Witness ==
    /\ ret.op = "removePublishedDataSet"
    /\ ret.status = "BadConfigurationError"
    /\ \E i \in 1 .. Len(publishedDataSets) :
          /\ publishedDataSets[i].configurationFrozen
          /\ \E d \in dataSetWriters :
                d.connectedDataSet = publishedDataSets[i].identifier

\* C14: addPublishedDataSet with a publishedDataSetType other than
\* PublishedItems is refused and leaves the data sets, their size and the
\* unique-id counter as they were; the status is BadNotSupported for the
\* PublishedEvents variants and BadInternalError for the PublishedItems
\* template.
C14_UnsupportedTypeStatus ==
    [][\A name \in {"a", "b", ""}, type \in PublishedDataSetTypes :
          (/\ ret'.op = "addPublishedDataSet"
           /\ type # "PUBLISHEDITEMS"
           /\ UA_Server_addPublishedDataSet(name, type)) =>
              /\ UNCHANGED <<pdsVars, uniqueIdCount>>
              /\ ret'.status =
                    IF type = "PUBLISHEDITEMS_TEMPLATE"
                    THEN "BadInternalError" ELSE "BadNotSupported"]_vars

\* C12: in every reachable state no two connections of the manager have equal
\* names and no two StandaloneSubscribedDataSets of the manager have equal
\* names.
C12_ConnectionAndDataSetNamesUnique ==
    /\ \A i, j \in 1 .. Len(connections) :
          connections[i].name = connections[j].name => i = j
    /\ \A i, j \in 1 .. Len(subscribedDataSets) :
          subscribedDataSets[i].name = subscribedDataSets[j].name => i = j

\* C15: a failing addConnection leaves the list of connections, connectionsSize
\* and the unique-id counter as they were before the call. It returns
\* BadNotFound when no transport layer is registered for the
\* transportProfileUri of the config, and BadInternalError, after the
\* connection it had inserted is removed again, when the transport layer
\* creates no channel.
C15_FailedAddConnectionChangesNothing ==
    [][\A uri \in {ProfileUdpUadp, ProfileMqttJson}, ok \in BOOLEAN :
          (/\ ret'.op = "addPubSubConnection"
           /\ UA_Server_addPubSubConnection("c", uri, ok)) =>
              /\ ret'.status =
                    IF uri \notin transportLayers THEN "BadNotFound"
                    ELSE IF ~ ok THEN "BadInternalError" ELSE "Good"
              /\ ret'.status # "Good" =>
                    /\ UNCHANGED <<connections, connectionsSize, uniqueIdCount>>
                    /\ \A n \in NodeIds :
                          IndexOfId(connections', n, 1) =
                              IndexOfId(connections, n, 1)]_vars

\* addConnection failed on the channel while the manager holds a connection
\* with a writer group: the list still is that one connection
C15_Witness ==
    /\ ret.op = "addPubSubConnection"
    /\ ret.status = "BadInternalError"
    /\ Len(connections) = 1
    /\ connectionsSize = 1
    /\ WriterGroupsOf(connections[1].identifier) # {}

\* C16: removePubSubConnection of the connection c leaves every
\* PublishedDataSet, every StandaloneSubscribedDataSet, every ReserveId and
\* every other connection with the groups, writers and readers below it as
\* they were; a PublishedDataSet that a DataSetWriter below c referred to is
\* still found by its identifier.
C16_RemoveConnectionFrame ==
    [][\A c \in NodeIds :
          (/\ ret'.op = "removePubSubConnection"
           /\ UA_Server_removePubSubConnection(c)) =>
              /\ UNCHANGED <<pdsVars, sdsVars, reserveVars>>
              /\ \A i \in 1 .. Len(connections) :
                    connections[i].identifier # c =>
                        \E j \in 1 .. Len(connections') :
                            connections'[j] = connections[i]
              /\ \A w \in writerGroups : w.linkedConnection # c =>
                    /\ w \in writerGroups'
                    /\ \A d \in WritersOf(w.identifier) : d \in dataSetWriters'
              /\ \A r \in readerGroups : r.linkedConnection # c =>
                    /\ r \in readerGroups'
                    /\ \A d \in ReadersOf(r.identifier) : d \in dataSetReaders'
              /\ \A w \in WriterGroupsOf(c) : \A d \in WritersOf(w.identifier) :
                    IndexOfId(publishedDataSets', d.connectedDataSet, 1) =
                        IndexOfId(publishedDataSets, d.connectedDataSet, 1)]_vars

\* a connection was removed together with a writer that referred to a
\* PublishedDataSet; the data set and a ReserveId are still there
C16_Witness ==
    /\ ret.op = "removePubSubConnection"
    /\ ret.status = "Good"
    /\ \E p \in ret.dataSets : IndexOfId(publishedDataSets, p, 1) # 0
    /\ connections = <<>>
    /\ dataSetWriters = {}
    /\ reserveIdsSize >= 1

\* C17: however often UA_PubSubConnection_regist is called for a connection,
\* the regist of its channel is called once, by the first of these calls;
\* every later call returns Good and leaves the channel alone, whatever
\* readerGroupConfig it is given.
C17_ChannelRegisteredOnce ==
    [][/\ \A i \in 1 .. Len(connections') :
              connections'[i].channelRegistCalls =
                  IF connections'[i].isRegistered THEN 1 ELSE 0
       /\ \A c \in NodeIds, cfg \in ReaderGroupConfigs, st \in ChannelStatuses :
              (/\ ret'.op = "regist"
               /\ UA_PubSubConnection_regist(c, cfg, st)
               /\ UA_PubSubConnection_findConnectionbyId(c) # 0) =>
                  LET i == UA_PubSubConnection_findConnectionbyId(c)
                  IN IF connections[i].channelRegistCalls = 0
                     THEN /\ ret'.channelCalled
                          /\ connections'[i].channelRegistCalls = 1
                     ELSE /\ ret'.status = "Good"
                          /\ ~ ret'.channelCalled
                          /\ UNCHANGED connections]_vars

\* a later call for a registered connection returned Good without a call of
\* the channel
C17_Witness ==
    /\ ret.op = "regist"
    /\ ret.status = "Good"
    /\ ~ ret.channelCalled
    /\ \E i \in 1 .. Len(connections) :
          /\ connections[i].isRegistered
          /\ connections[i].channelRegistCalls = 1

\* C18: UA_PubSubConnection_regist for a connection that is not yet registered
\* returns the status of the regist of the channel and sets isRegistered,
\* whether that status is Good or not; for an identifier that matches no
\* connection it returns BadNotFound, calls no channel and changes no flag.
C18_RegistReturnsChannelStatus ==
    [][\A c \in NodeIds, cfg \in ReaderGroupConfigs, st \in ChannelStatuses :
          (/\ ret'.op = "regist"
           /\ UA_PubSubConnection_regist(c, cfg, st)) =>
              LET i == UA_PubSubConnection_findConnectionbyId(c)
              IN /\ i = 0 =>
                      /\ ret'.status = "BadNotFound"
                      /\ ~ ret'.channelCalled
                      /\ UNCHANGED connections
                 /\ (i # 0 /\ ~ connections[i].isRegistered) =>
                      /\ ret'.status = st
                      /\ ret'.channelCalled
                      /\ connections'[i].isRegistered
                      /\ connections' = [connections EXCEPT
                                            ![i].isRegistered = TRUE,
                                            ![i].channelRegistCalls = 1]]_vars

\* the regist of the channel failed, the call returned its status and the
\* connection is registered all the same
C18_Witness ==
    /\ ret.op = "regist"
    /\ ret.status = "BadCommunicationError"
    /\ ret.channelCalled
    /\ ret.transportSettings = "transportSettings"
    /\ \E i \in 1 .. Len(connections) : connections[i].isRegistered

\* C19: for every startMonitoring that returned Good, the callback of the
\* reader is called at most once before the next stopMonitoring, whatever
\* startMonitoring, stopMonitoring, updateMonitoringInterval, deleteMonitoring
\* and expirations of timers happen; and when monitoringReceiveTimeoutOnce has
\* run, the timer handle of the reader is 0.
C19_CallbackAtMostOncePerArming ==
    [][/\ arming'.active => arming'.fired <= 1
       /\ (ret'.op = "monitoringReceiveTimeoutOnce"
           /\ monitoringReceiveTimeoutOnce_return) =>
              msgRcvTimeoutTimerId' = 0]_vars

\* C20: startMonitoring may be called whatever the state of the timeout of the
\* reader is, also from inside the callback of the reader while
\* monitoringReceiveTimeoutOnce runs; when it returned Good the handle of the
\* reader is that of a live timer of the event loop with the interval
\* messageReceiveTimeout, and it stays the handle of a live timer until the
\* callback is called or stopMonitoring is called.
C20_ArmedAfterStart ==
    [][/\ \A status \in {"Good", "BadOutOfMemory"} :
              (/\ ret'.op = "startMonitoring"
               /\ ret'.status = "Good"
               /\ UA_PubSubComponent_startMonitoring(
                      UA_PUBSUB_COMPONENT_DATASETREADER,
                      UA_PUBSUB_MONITORING_MESSAGE_RECEIVE_TIMEOUT, status)) =>
                  [id |-> msgRcvTimeoutTimerId',
                   interval |-> messageReceiveTimeout] \in timers'
       /\ (arming'.active /\ arming'.fired = 0) =>
              \E t \in timers' : t.id = msgRcvTimeoutTimerId']_vars

\* C21: when addCyclicCallback of the event loop fails in startMonitoring, the
\* call returns the status of the event loop and the timer handle of the reader
\* is 0 afterwards, whatever it was before; the status of a failing
\* modifyCyclicCallback is returned by updateMonitoringInterval as it is.
C21_FailedStartLeavesHandleZero ==
    [][/\ \A status \in {"Good", "BadOutOfMemory"} :
              (/\ ret'.op = "startMonitoring"
               /\ status # "Good"
               /\ UA_PubSubComponent_startMonitoring(
                      UA_PUBSUB_COMPONENT_DATASETREADER,
                      UA_PUBSUB_MONITORING_MESSAGE_RECEIVE_TIMEOUT, status)) =>
                  /\ ret'.status = status
                  /\ msgRcvTimeoutTimerId' = 0
       /\ (/\ ret'.op = "updateMonitoringInterval"
           /\ UA_PubSubComponent_updateMonitoringInterval(
                  UA_PUBSUB_COMPONENT_DATASETREADER,
                  UA_PUBSUB_MONITORING_MESSAGE_RECEIVE_TIMEOUT)) =>
              ret'.status =
                  modifyCyclicCallback(timers, msgRcvTimeoutTimerId,
                                       messageReceiveTimeout).status]_vars

\* C22: createMonitoring records the callback on the reader for the component
\* DataSetReader with the kind MessageReceiveTimeout and for nothing else;
\* with any other pair createMonitoring, startMonitoring, stopMonitoring and
\* updateMonitoringInterval return BadNotSupported and leave the callback and
\* the timer handle of the reader and the timers of the event loop as they
\* were.
C22_UnsupportedMonitoringChangesNothing ==
    [][\A ct \in ComponentTypes, mt \in MonitoringTypes :
          /\ (/\ ret'.op = "createMonitoring"
              /\ UA_PubSubComponent_createMonitoring(ct, mt)) =>
                 IF /\ ct = UA_PUBSUB_COMPONENT_DATASETREADER
                    /\ mt = UA_PUBSUB_MONITORING_MESSAGE_RECEIVE_TIMEOUT
                 THEN /\ ret'.status = "Good"
                      /\ msgRcvTimeoutTimerCallback' = "callback"
                 ELSE /\ ret'.status = "BadNotSupported"
                      /\ UNCHANGED monVars
          /\ (/\ ret'.op \in {"startMonitoring", "stopMonitoring",
                              "updateMonitoringInterval"}
              /\ ~ (/\ ct = UA_PUBSUB_COMPONENT_DATASETREADER
                    /\ mt = UA_PUBSUB_MONITORING_MESSAGE_RECEIVE_TIMEOUT)
              /\ \/ \E status \in {"Good", "BadOutOfMemory"} :
                        UA_PubSubComponent_startMonitoring(ct, mt, status)
                 \/ UA_PubSubComponent_stopMonitoring(ct, mt)
                 \/ UA_PubSubComponent_updateMonitoringInterval(ct, mt)) =>
                 /\ ret'.status = "BadNotSupported"
                 /\ UNCHANGED monVars]_vars

\* stopMonitoring was refused with BadNotSupported and the timer of the reader
\* is still in the event loop
C22_Witness ==
    /\ ret.op = "stopMonitoring"
    /\ ret.status = "BadNotSupported"
    /\ msgRcvTimeoutTimerCallback = "callback"
    /\ \E t \in timers : t.id = msgRcvTimeoutTimerId

\* the manager owns no entity: every collection is empty and every size
\* counter is 0
ManagerEmpty ==
    /\ connections = <<>> /\ connectionsSize = 0
    /\ publishedDataSets = <<>> /\ publishedDataSetsSize = 0
    /\ topicAssign = <<>> /\ topicAssignSize = 0
    /\ reserveIds = EmptyBag /\ reserveIdsSize = 0
    /\ subscribedDataSets = <<>> /\ subscribedDataSetsSize = 0

\* C23: after UA_PubSubManager_delete the manager owns no entity: the
\* connections, PublishedDataSets, TopicAssigns, ReserveIds and
\* StandaloneSubscribedDataSets are all gone and their size counters are 0,
\* whatever the manager held before, frozen PublishedDataSets and reservations
\* of live sessions and of the admin session included; on an empty manager the
\* teardown changes none of them.
C23_DestroyLeavesNothing ==
    [][(ret'.op = "delete" /\ UA_PubSubManager_delete) => ManagerEmpty']_vars

\* the identifiers of the connections, PublishedDataSets and
\* StandaloneSubscribedDataSets of the manager
ManagerIds(conns, pdss, sdss) ==
    {conns[i].identifier : i \in 1 .. Len(conns)}
    \cup {pdss[i].identifier : i \in 1 .. Len(pdss)}
    \cup {sdss[i].identifier : i \in 1 .. Len(sdss)}

\* C24: the identifiers that addConnection, addPublishedDataSet and
\* addStandaloneSubscribedDataSet assign through
\* UA_PubSubManager_generateUniqueNodeId are pairwise distinct over the
\* lifetime of the manager, across the kinds of entities and also after
\* entities were removed: uniqueIdCount never goes down, a new identifier is
\* greater than every identifier assigned before and so is never one that was
\* in use earlier.
C24_IdentifiersNeverReused ==
    [][/\ uniqueIdCount' >= uniqueIdCount
       /\ \A id \in ManagerIds(connections', publishedDataSets', subscribedDataSets')
                    \ ManagerIds(connections, publishedDataSets, subscribedDataSets) :
              /\ id > uniqueIdCount
              /\ id = uniqueIdCount'
       /\ \A id \in ManagerIds(connections', publishedDataSets', subscribedDataSets') :
              id <= uniqueIdCount'
       /\ Cardinality(ManagerIds(connections', publishedDataSets',
                                 subscribedDataSets')) =
              Len(connections') + Len(publishedDataSets') + Len(subscribedDataSets')
      ]_vars

\* a connection got an identifier after the entities that had the earlier
\* identifiers were removed; it is greater than all of them
C24_Witness ==
    /\ ret.op = "addPubSubConnection"
    /\ ret.status = "Good"
    /\ Len(connections) = 1
    /\ connections[1].identifier = 3
    /\ publishedDataSets = <<>>
    /\ subscribedDataSets = <<>>
    /\ writerGroups = {}
    /\ readerGroups = {}

\* C25: every call that changes the manager, and the trampoline of the timer,
\* reads and writes the manager only while it holds the service mutex, so no
\* two of them interleave: a thread that is inside such a call is the holder
\* of the mutex, a thread that is inside no call is not, and the trampoline
\* runs only while the event loop holds the mutex, which the code never makes
\* it do.
C25_MutationsUnderLock ==
    /\ \A t \in Threads : (pc[t].op # "idle") <=> (serviceMutex = t)
    /\ trampoline = 0

\* C26: however the removal of a DataSetReader (by removePubSubConnection, by
\* removeStandaloneSubscribedDataSet, by the deletion of the manager) and
\* the expiry of the timer of that reader interleave, no step of the
\* trampoline reads or writes a reader that has been removed.
C26_TrampolineNeverTouchesRemovedReader ==
    [][(trampoline' # trampoline \/ ret'.op = "monitoringReceiveTimeoutOnce")
           => ~ ReaderRemoved]_vars

\* the k-th id in cyclic order from the cursor: a cursor below the first id
\* counts as the first id, and the last id is followed by the first
CyclicId(cursor, k) ==
    LET from == IF cursor < UA_RESERVEID_FIRST_ID THEN UA_RESERVEID_FIRST_ID
                ELSE cursor
    IN UA_RESERVEID_FIRST_ID + ((from - UA_RESERVEID_FIRST_ID + k) % NumberOfIds)

C28_CursorsResetOnlyByTeardown ==
    [][/\ ret'.op \notin {"reserveIds", "delete"} =>
            UNCHANGED <<next_id_writerGroup, next_id_writer>>
       /\ ret'.op = "delete" =>
            /\ next_id_writerGroup' = UA_RESERVEID_FIRST_ID
            /\ next_id_writer' = UA_RESERVEID_FIRST_ID]_vars

\* the thread that removes a connection call by call
Remover == pc["t1"]

\* C29: removePubSubConnection takes the writer groups of the connection one
\* by one: the group is set to Disabled with the cause Shutdown, then
\* unfrozen, then removed; it does the same with the reader groups; only when
\* no group of the connection is left is the connection unlinked; and no pass
\* of a loop visits a group that has been removed already.
C29_RemoveConnectionOrder ==
    [][/\ ret'.op \in {"UA_WriterGroup_setPubSubState", "UA_ReaderGroup_setPubSubState"} =>
            /\ ret'.state = UA_PUBSUBSTATE_DISABLED
            /\ ret'.cause = "BadShutdown"
            /\ \E x \in writerGroups \cup readerGroups :
                    /\ x.identifier = Remover'.group
                    /\ x.linkedConnection = Remover.arg
            /\ \E x \in writerGroups' \cup readerGroups' :
                    /\ x.identifier = Remover'.group
                    /\ x.state = UA_PUBSUBSTATE_DISABLED
       /\ ret'.op \in {"unfreezeWriterGroupConfiguration",
                       "unfreezeReaderGroupConfiguration"} =>
            /\ \E x \in writerGroups \cup readerGroups :
                    /\ x.identifier = Remover.group
                    /\ x.state = UA_PUBSUBSTATE_DISABLED
            /\ \E x \in writerGroups' \cup readerGroups' :
                    /\ x.identifier = Remover.group
                    /\ ~ x.configurationFrozen
       /\ ret'.op \in {"removeWriterGroup", "removeReaderGroup"} =>
            /\ \E x \in writerGroups \cup readerGroups :
                    /\ x.identifier = Remover.group
                    /\ x.state = UA_PUBSUBSTATE_DISABLED
                    /\ ~ x.configurationFrozen
            /\ ~ \E x \in writerGroups' \cup readerGroups' :
                    x.identifier = Remover.group
            /\ ret'.status = "Good"
       /\ (ret'.op = "removePubSubConnection" /\ ret'.status = "Good") =>
            /\ ~ \E x \in writerGroups \cup readerGroups :
                    x.linkedConnection = Remover.arg
            /\ IndexOfId(connections, Remover.arg, 1) # 0
            /\ IndexOfId(connections', Remover.arg, 1) = 0
       /\ (Remover.op = "removePubSubConnection" /\ Remover.at = "readerGroups") =>
            ~ \E w \in writerGroups : w.linkedConnection = Remover.arg]_vars

\* the loop has removed the last reader group of a connection, no group is
\* left, and the connection is still linked
C29_Witness ==
    /\ ret.op = "removeReaderGroup"
    /\ ret.status = "Good"
    /\ Remover.op = "removePubSubConnection"
    /\ Remover.at = "readerGroups"
    /\ Remover.todo = {}
    /\ IndexOfId(connections, Remover.arg, 1) # 0
    /\ writerGroups = {}
    /\ readerGroups = {}
    /\ uniqueIdCount >= 3

\* the loop UA_PubSubManager_delete runs in this step
DeleteLoop == IF ret'.op = "UA_PubSubManager_delete" THEN ret'.loop ELSE "none"

\* C30: the teardown takes the connections, the PublishedDataSets, the
\* TopicAssigns, the ReserveIds, the transport layers and the
\* StandaloneSubscribedDataSets in this order: each loop runs right after the
\* one before it and finds what the earlier loops have emptied; so when the
\* PublishedDataSets and when the StandaloneSubscribedDataSets are removed,
\* there is no connection, group, DataSetWriter or DataSetReader any more.
C30_TeardownOrder ==
    [][/\ DeleteLoop = "connections" =>
            (ret.op = "UA_PubSubManager_delete" => ret.loop = "subscribedDataSets")
       /\ DeleteLoop = "publishedDataSets" =>
            /\ ret.op = "UA_PubSubManager_delete" /\ ret.loop = "connections"
            /\ connections = <<>> /\ connectionsSize = 0
            /\ writerGroups = {} /\ readerGroups = {}
            /\ dataSetWriters = {} /\ dataSetReaders = {}
       /\ DeleteLoop = "topicAssign" =>
            /\ ret.op = "UA_PubSubManager_delete" /\ ret.loop = "publishedDataSets"
            /\ connections = <<>>
       /\ DeleteLoop = "reserveIds" =>
            /\ ret.op = "UA_PubSubManager_delete" /\ ret.loop = "topicAssign"
            /\ topicAssign = <<>> /\ topicAssignSize = 0
       /\ DeleteLoop = "transportLayers" =>
            /\ ret.op = "UA_PubSubManager_delete" /\ ret.loop = "reserveIds"
            /\ reserveIds = EmptyBag /\ reserveIdsSize = 0
       /\ DeleteLoop = "subscribedDataSets" =>
            /\ ret.op = "UA_PubSubManager_delete" /\ ret.loop = "transportLayers"
            /\ transportLayers = {}
            /\ connections = <<>>
            /\ dataSetWriters = {} /\ dataSetReaders = {}
            /\ topicAssign = <<>> /\ reserveIds = EmptyBag]_vars

\* the teardown of a manager that had a reader connected to a
\* StandaloneSubscribedDataSet has run every loop before the last: the data
\* set is about to be removed, and the reader and its connection are gone
C30_Witness ==
    /\ ret.op = "UA_PubSubManager_delete"
    /\ ret.loop = "transportLayers"
    /\ pc["t1"].at = "subscribedDataSets"
    /\ \E i \in 1 .. Len(subscribedDataSets) :
            subscribedDataSets[i].connectedReader # UA_NODEID_NULL
    /\ connections = <<>>
    /\ dataSetReaders = {}

\* C31: after stopMonitoring on an Armed reader the callback of the reader is
\* not called until the next startMonitoring that returns Good: stopMonitoring
\* removes the timer under the handle of the reader, and from then on no
\* expiry calls the callback.
C31_StoppedReaderNotCalled ==
    [][/\ (ret'.op = "stopMonitoring" /\ ret'.status = "Good") =>
            ~ \E t \in timers' : t.id = msgRcvTimeoutTimerId
       /\ (trampoline = 0 /\ trampoline' # 0) => arming.active]_vars

\* C32: an id reserved by a session that was closed without binding it is not
\* lost: when no live entity uses the id, reserveIds calls of any other caller
\* for the same uri and kind, at most NumberOfIds ids in all, are granted the
\* id again. The sweep frees the entry and the cursor reaches the id in cyclic
\* order, past the end of the range if it has to.
C32_ClosedSessionIdGrantedAgain ==
    \A e \in BagToSet(reserveIds) :
        (/\ e.sessionId \notin Callers
         /\ UA_ReserveId_isFree(e.id, e.transportProfileUri, e.reserveIdType, EmptyBag))
        => \A s \in Callers :
             \E n \in 1 .. NumberOfIds :
                LET r == ReserveIdsResult(AllocatorState, s,
                            IF e.reserveIdType = UA_WRITER_GROUP THEN n ELSE 0,
                            IF e.reserveIdType = UA_WRITER_GROUP THEN 0 ELSE n,
                            e.transportProfileUri)
                    ids == IF e.reserveIdType = UA_WRITER_GROUP
                           THEN r.writerGroupIds ELSE r.dataSetWriterIds
                IN /\ r.status = "Good"
                   /\ ids[n] = e.id
                   /\ e \in BagToSet(r.freed)

\* the session s1 reserved the first id for a writer group over UDP and was
\* closed; the entry is still in the list, the cursor is past the id and has
\* to wrap, the id after it is held by a live writer group
C32_Witness ==
    /\ "s1" \notin sessions
    /\ \E e \in BagToSet(reserveIds) :
            /\ e.sessionId = "s1"
            /\ e.reserveIdType = UA_WRITER_GROUP
            /\ e.id = UA_RESERVEID_FIRST_ID
    /\ next_id_writerGroup > UA_RESERVEID_FIRST_ID
    /\ \E w \in writerGroups : w.writerGroupId = UA_UINT16_MAX

\* C33: when addPublishedDataSet returns Good, the configurationVersion in
\* the result is the configurationVersion stored in the dataSetMetaData of the
\* new PDS, however the clock advances between its readings; the metadata
\* stored has the name of the config, an empty description and the null
\* dataset class id.
C33_ResultVersionIsStoredVersion ==
    [][(ret'.op = "addPublishedDataSet" /\ ret'.status = "Good") =>
        LET newPDS == publishedDataSets'[Len(publishedDataSets')]
        IN /\ ret'.configurationVersion = newPDS.dataSetMetaData.configurationVersion
           /\ newPDS.dataSetMetaData.name = newPDS.name
           /\ newPDS.dataSetMetaData.description = ""
           /\ newPDS.dataSetMetaData.dataSetClassId = "UA_GUID_NULL"]_vars

\* C34: in every state the start, stop, update and delete of the monitoring
\* and the expiries of the timers can reach, the timer handle of the reader is
\* nonzero exactly when a receive-timeout timer registered for the reader is
\* live in the event loop.
C34_HandleNonzeroIffTimerLive ==
    (msgRcvTimeoutTimerId # 0) <=> (timers # {})

\* C35: at most one receive-timeout timer of the reader is registered in the
\* event loop: a startMonitoring on a reader that is armed does not leave the
\* earlier timer registered, and when monitoringReceiveTimeoutOnce has run, the
\* timer that fired is no longer registered, so no cyclic timer calls the
\* callback again after its first expiry.
C35_AtMostOneTimerPerReader ==
    [][/\ Cardinality(timers') <= 1
       /\ (trampoline # 0 /\ monitoringReceiveTimeoutOnce_return) =>
              ~ \E t \in timers' : t.id = trampoline]_vars

\* C36: no operation tries to take the service mutex on a thread that holds
\* it: no UA_LOCK of the removals or of UA_PubSubManager_delete is reached by
\* the holder of the mutex, and UA_PubSubManager_delete, entered with the
\* mutex held, is never left waiting for the mutex in its removal steps,
\* whatever the manager holds, StandaloneSubscribedDataSets included.
C36_NoLockByHolder ==
    [][\A t \in Threads :
        /\ serviceMutex = t =>
            ~ \/ \E id \in 1 .. MaxIdsNodes :
                    \/ UA_Server_removePubSubConnection_LOCK(t, id)
                    \/ UA_Server_removePublishedDataSet_LOCK(t, id)
                    \/ UA_Server_removeStandaloneSubscribedDataSet_LOCK(t, id)
              \/ \E recursive \in BOOLEAN :
                    UA_PubSubManager_delete_removeStandaloneSubscribedDataSet_LOCK(
                        t, recursive)
        /\ pc'[t].op # "UA_LOCK"]_vars

\* C37: each size counter of the manager is the number of elements of its
\* collection, whatever adds, failed adds, removals, reserveIds, freeIds and
\* deletions of the manager were called: connectionsSize, publishedDataSetsSize,
\* subscribedDataSetsSize, topicAssignSize and reserveIdsSize. So a counter is
\* 0 exactly when its list is empty, and an insertion starts the list anew
\* only when the list is empty.
C37_SizeCountersMatch ==
    /\ connectionsSize = Len(connections)
    /\ publishedDataSetsSize = Len(publishedDataSets)
    /\ subscribedDataSetsSize = Len(subscribedDataSets)
    /\ topicAssignSize = Len(topicAssign)
    /\ reserveIdsSize = BagCardinality(reserveIds)

\* an add of a connection has failed in the transport layer while the manager
\* holds a connection, a PublishedDataSet, a TopicAssign and reservations
C37_Witness ==
    /\ ret.op = "addPubSubConnection"
    /\ ret.status = "BadInternalError"
    /\ connectionsSize = 1
    /\ topicAssignSize >= 1
    /\ reserveIdsSize >= 2

\* the entries of the reserve list rids for the kind reserveIdType
EntriesOfKind(rids, reserveIdType) ==
    {e \in BagToSet(rids) : e.reserveIdType = reserveIdType}

\* an id is free for (uri, kind) exactly when no entry of the reserve list and
\* no live entity has that uri, that kind and that id
FreeScopedByUriAndKind ==
    \A uri \in {ProfileUdpUadp, ProfileMqttUadp},
       reserveIdType \in {UA_WRITER_GROUP, UA_DATA_SET_WRITER},
       id \in ReservedRange :
        UA_ReserveId_isFree(id, uri, reserveIdType, reserveIds)
        <=> /\ ~ \E e \in BagToSet(reserveIds) :
                    /\ e.transportProfileUri = uri
                    /\ e.reserveIdType = reserveIdType
                    /\ e.id = id
            /\ ~ LiveEntityWithId(connections, writerGroups, dataSetWriters,
                                  uri, reserveIdType, id)

\* C38 (as stated): the free test is scoped by (uri, kind): a reservation or a
\* live entity takes an id only for its own transport profile uri and its own
\* kind; and a reserveIds call that asks for no DataSetWriter id leaves the
\* cursor of the DataSetWriter ids and all the reservations of DataSetWriter
\* ids as they were, and the same for the WriterGroup ids.
C38_ScopedAndOtherKindUntouched ==
    [][/\ FreeScopedByUriAndKind'
       /\ (ret'.op = "reserveIds" /\ ret'.dataSetWriterIds = <<>>) =>
            /\ next_id_writer' = next_id_writer
            /\ EntriesOfKind(reserveIds', UA_DATA_SET_WRITER)
                = EntriesOfKind(reserveIds, UA_DATA_SET_WRITER)
       /\ (ret'.op = "reserveIds" /\ ret'.writerGroupIds = <<>>) =>
            /\ next_id_writerGroup' = next_id_writerGroup
            /\ EntriesOfKind(reserveIds', UA_WRITER_GROUP)
                = EntriesOfKind(reserveIds, UA_WRITER_GROUP)]_vars

\* C38 (amended): the free test is scoped by (uri, kind); a reserveIds call
\* that asks for no DataSetWriter id leaves the cursor of the DataSetWriter ids
\* as it was, adds no reservation of a DataSetWriter id, and removes those that
\* its sweep frees, the entries of sessions that are closed, and no other; the
\* same for the WriterGroup ids.
C38_ScopedAndOtherKindOnlySwept ==
    [][/\ FreeScopedByUriAndKind'
       /\ (ret'.op = "reserveIds" /\ ret'.dataSetWriterIds = <<>>) =>
            /\ next_id_writer' = next_id_writer
            /\ EntriesOfKind(reserveIds', UA_DATA_SET_WRITER)
                = {e \in EntriesOfKind(reserveIds, UA_DATA_SET_WRITER) :
                        OwnerAlive(e)}
       /\ (ret'.op = "reserveIds" /\ ret'.writerGroupIds = <<>>) =>
            /\ next_id_writerGroup' = next_id_writerGroup
            /\ EntriesOfKind(reserveIds', UA_WRITER_GROUP)
                = {e \in EntriesOfKind(reserveIds, UA_WRITER_GROUP) :
                        OwnerAlive(e)}]_vars

\* the first id is reserved under two transport profiles and for both kinds
\* at the same time, a live writer group carries the id after it, and the last
\* call was a reserveIds that returned a WriterGroup id and no DataSetWriter id
C38_Witness ==
    /\ ret.op = "reserveIds"
    /\ ret.status = "Good"
    /\ ret.writerGroupIds = <<UA_RESERVEID_FIRST_ID>>
    /\ ret.dataSetWriterIds = <<>>
    /\ \E a, b, c \in BagToSet(reserveIds) :
            /\ a.id = UA_RESERVEID_FIRST_ID
            /\ b.id = a.id
            /\ c.id = a.id
            /\ a.reserveIdType = UA_WRITER_GROUP
            /\ b.reserveIdType = UA_WRITER_GROUP
            /\ a.transportProfileUri # b.transportProfileUri
            /\ c.reserveIdType = UA_DATA_SET_WRITER
    /\ \E w \in writerGroups : w.writerGroupId = UA_UINT16_MAX

\* C39: UA_PubSubManager_delete leaves no transport layer registered, and
\* while none is registered every addPubSubConnection returns BadNotFound and
\* adds nothing, whatever the transport profile uri is, the uris that had a
\* transport layer before the deletion included.
C39_NoLayerAfterDelete ==
    [][/\ ret'.op = "delete" => transportLayers' = {}
       /\ (transportLayers = {} /\ ret'.op = "addPubSubConnection") =>
            /\ ret'.status = "BadNotFound"
            /\ UNCHANGED <<connVars, writerVars, readerVars, uniqueIdCount,
                           transportLayers>>]_vars

\* a connection was added and the manager deleted; the add of a connection
\* after that has returned BadNotFound and the manager is empty
C39_Witness ==
    /\ ret.op = "addPubSubConnection"
    /\ ret.status = "BadNotFound"
    /\ transportLayers = {}
    /\ uniqueIdCount >= 1
    /\ connections = <<>>
    /\ connectionsSize = 0
====
